---- MODULE Spec2Model ----
(***************************************************************************)
(* State-machine model of the FDSN download helpers:                       *)
(*   obspy/fdsn/download_helpers/download_helpers.py  (Restrictions,       *)
(*                                                     DownloadHelper)     *)
(*   obspy/fdsn/download_helpers/download_status.py   (Station, Channel,   *)
(*                                   TimeInterval, ClientDownloadHelper)   *)
(*                                                                         *)
(* Times are integers (seconds), minimum_length is a percentage, station   *)
(* coordinates are integer millidegrees on the equator.  Python dicts are  *)
(* modelled in insertion order.  An uncaught Python exception ends the     *)
(* run in pc = "raised" with the exception's name in exc.                  *)
(***************************************************************************)
EXTENDS Integers, Sequences, FiniteSets, TLC

\* ------------------------------------------------------------------ bounds
\* Number of initialized clients in the multi-provider specification.
NumProviders == 2
\* restrictions.endtime of the download specifications (starttime is 0).
EndTime == 3
\* The chunklength_in_sec used when chunking is switched on.
ChunkLen == 2
\* Largest time and chunk length of the Restrictions iteration specification.
MaxTime == 5
MaxChunk == 4

\* ----------------------------------------------------------- small helpers
Min(a, b) == IF a < b THEN a ELSE b
Abs(a) == IF a < 0 THEN 0 - a ELSE a
Range(s) == {s[i] : i \in DOMAIN s}
MinOf(S) == CHOOSE x \in S : \A y \in S : x <= y
MaxOf(S) == CHOOSE x \in S : \A y \in S : x >= y

RECURSIVE Concat(_)
\* itertools.chain / list.extend over a sequence of sequences.
Concat(ss) == IF ss = <<>> THEN <<>> ELSE Head(ss) \o Concat(Tail(ss))

\* Python None for an optional value, and a set value, as 0/1-tuples.
None == <<>>
Some(x) == <<x>>

\* --------------------------------------------------------------- STATUS
\* download_status.py:42 STATUS enum.
STATUS == {"none", "needs_downloading", "downloaded", "ignore", "exists",
           "download_failed", "download_rejected"}

\* -------------------------------------------------------- glob matching
\* SEED codes are tuples of characters; a pattern is a tuple of items, each
\* [star |-> TRUE] ('*') or a character set (literal, '?', '[..]').
Chars == {"H", "B", "L", "Z", "N", "0", "1"}
Lit(c) == [star |-> FALSE, cs |-> {c}]
Cls(S) == [star |-> FALSE, cs |-> S]
AnyChar == [star |-> FALSE, cs |-> Chars]
Star == [star |-> TRUE, cs |-> Chars]

RECURSIVE fnmatch(_, _)
fnmatch(name, pat) ==
    IF pat = <<>> THEN name = <<>>
    ELSE IF Head(pat).star
         THEN \E k \in 0..Len(name) :
                  fnmatch(SubSeq(name, k + 1, Len(name)), Tail(pat))
         ELSE /\ name # <<>>
              /\ Head(name) \in Head(pat).cs
              /\ fnmatch(Tail(name), Tail(pat))

\* ---------------------------------------------- filter_channel_priority
RECURSIVE FirstMatch_offbyone(_, _, _)
\* The filter dropping the first channel that matches the winning pattern.
FirstMatch_offbyone(channels, key, priorities) ==
    IF priorities = <<>> THEN <<>>
    ELSE LET hit == SelectSeq(channels,
                        LAMBDA c : fnmatch(c[key], Head(priorities)))
         IN  IF hit # <<>> THEN Tail(hit)
             ELSE FirstMatch_offbyone(channels, key, Tail(priorities))

\* The filter without "first match wins": the channels matching any pattern.
FirstMatch_anymatch(channels, key, priorities) ==
    SelectSeq(channels, LAMBDA c :
        \E i \in DOMAIN priorities : fnmatch(c[key], priorities[i]))

RECURSIVE FirstMatch(_, _, _)
\* utils.filter_channel_priority(channels, key, priorities): the channels
\* matching the first pattern of priorities that matches any channel.
FirstMatch(channels, key, priorities) ==
    IF priorities = <<>> THEN <<>>
    ELSE LET hit == SelectSeq(channels,
                        LAMBDA c : fnmatch(c[key], Head(priorities)))
         IN  IF hit # <<>> THEN hit
             ELSE FirstMatch(channels, key, Tail(priorities))

filter_channel_priority(channels, key, priorities) ==
    IF priorities = None THEN channels
    ELSE FirstMatch(channels, key, priorities[1])

\* ------------------------------------------------ Restrictions.__iter__
RECURSIVE it_unclipped(_, _, _)
\* The generator without "min(..., endtime)": the last pair overshoots.
it_unclipped(starttime, endtime, chunklength) ==
    IF starttime < endtime
    THEN << <<starttime, starttime + chunklength>> >>
         \o it_unclipped(starttime + chunklength, endtime, chunklength)
    ELSE <<>>

RECURSIVE it(_, _, _)
\* download_helpers.py:182-190, the generator of the chunked case.
it(starttime, endtime, chunklength) ==
    IF starttime < endtime
    THEN << <<starttime, Min(starttime + chunklength, endtime)>> >>
         \o it(starttime + chunklength, endtime, chunklength)
    ELSE <<>>

\* download_helpers.py:174-191.  "not self.chunklength" is true for None
\* and for 0.0.
Restrictions_iter(r) ==
    IF r.chunklength = None \/ r.chunklength[1] = 0
    THEN << <<r.starttime, r.endtime>> >>
    ELSE it(r.starttime, r.endtime, r.chunklength[1])

\* ------------------------------------------------------------ the state
VARIABLES
    restrictions,           \* the Restrictions object passed to download()
    mseed_storage,          \* the waveform storage hint passed to download()
    served,                 \* what a data centre may deliver for an interval
    clients,                \* DownloadHelper._initialized_clients (ordered)
    pc,                     \* position of DownloadHelper.download
    cur,                    \* index in clients of the loop's current client
    stations,               \* helper.stations of the current helper
    files,                  \* waveform files on disk: set of [path, content]
    xmlfiles,               \* StationXML files: set of [path, content]
    existing_stations,      \* download(): existing_stations
    discarded_station_ids,  \* download(): discarded_station_ids
    report,                 \* download(): report
    requested,              \* stations handed to the bulk waveform request
    exc,                    \* name of the uncaught exception, "" if none
    dirs,                   \* directories on disk (set of paths)
    qc,                     \* _check_downloaded_data: inputs and byte counts
    arguments,              \* download_stationxml: arguments of the last call
    arg,                    \* input of the pure-function specifications
    ret                     \* their result

vars == <<restrictions, mseed_storage, served, clients, pc, cur, stations,
          files, xmlfiles, existing_stations, discarded_station_ids, report,
          requested, exc, dirs, qc, arguments, arg, ret>>

runvars == <<restrictions, mseed_storage, served, clients, pc, cur, stations,
             files, xmlfiles, existing_stations, discarded_station_ids,
             report, requested, exc, dirs, qc, arguments>>

\* ------------------------------------------------------ SEED identifiers
HHZ == <<"H", "H", "Z">>
HHN == <<"H", "H", "N">>
BHZ == <<"B", "H", "Z">>
LHZ == <<"L", "H", "Z">>
LocEmpty == <<>>
Loc00 == <<"0", "0">>
Loc10 == <<"1", "0">>
\* sorted() order of the location codes (download_status.py:872).
SortedLocations == <<LocEmpty, Loc00, Loc10>>

\* Restrictions.__init__ defaults (download_helpers.py:149-152), shortened.
DefaultChannelPriorities ==
    << <<Lit("H"), Lit("H"), Cls({"Z", "N"})>>,
       <<Lit("B"), Lit("H"), Cls({"Z", "N"})>> >>
DefaultLocationPriorities == << LocEmpty, <<Lit("0"), Lit("0")>> >>

\* Restrictions.__init__ (download_helpers.py:145-166).
Restrictions(starttime, endtime, chunklength_in_sec, reject_gaps, minlen) ==
    [starttime |-> starttime, endtime |-> endtime,
     chunklength |-> chunklength_in_sec,
     network |-> None, station |-> None, location |-> None, channel |-> None,
     reject_channels_with_gaps |-> reject_gaps,
     minimum_length |-> minlen,
     channel_priorities |-> Some(DefaultChannelPriorities),
     location_priorities |-> Some(DefaultLocationPriorities),
     minimum_interstation_distance_in_m |-> 1000]

\* ------------------------------------------------------------ filesystem
Exists(fs, path) == \E f \in fs : f.path = path
Read(fs, path) == CHOOSE f \in fs : f.path = path
\* utils.safe_delete
safe_delete(fs, path) == {f \in fs : f.path # path}

\* What a waveform file can hold, for an interval of the given length:
\* size in bytes, whether obspy.read parses it, its number of traces and
\* the summed duration of the traces.
Content(kind, length) ==
    CASE kind = "zero"    -> [size |-> 0, readable |-> FALSE, traces |-> 0,
                              duration |-> 0]
      [] kind = "garbage" -> [size |-> 1, readable |-> FALSE, traces |-> 0,
                              duration |-> 0]
      [] kind = "empty"   -> [size |-> 2, readable |-> TRUE, traces |-> 0,
                              duration |-> 0]
      [] kind = "gappy"   -> [size |-> 3, readable |-> TRUE, traces |-> 2,
                              duration |-> length]
      [] kind = "short"   -> [size |-> 4, readable |-> TRUE, traces |-> 1,
                              duration |-> 0]
      [] kind = "full"    -> [size |-> 5, readable |-> TRUE, traces |-> 1,
                              duration |-> length]
\* "missing": the request wrote no file for the interval.
FileKinds == {"missing", "zero", "garbage", "empty", "gappy", "short", "full"}

\* ------------------------------------------------------ storage resolvers
\* The ignore sentinel of the waveform storage hint (True), no filename yet
\* (None) and a path, all as tuples.
IgnoreSentinel == <<"True">>
NoFilename == <<>>

\* utils.get_mseed_filename: a template with every placeholder, a user
\* callable that declines (returns True for) the HHN channels, or the
\* template "{network}.{station}.mseed" ("flat").
get_mseed_filename(storage, network, station, location, channel, s, e) ==
    IF storage = "callable" /\ channel = HHN
    THEN IgnoreSentinel
    ELSE IF storage = "flat"
    THEN <<network, station>>
    ELSE <<network, station, location, channel, s, e>>

\* utils.get_stationxml_filename: the template "{network}.{station}.xml".
get_stationxml_filename(network, station) == <<network, station>>

\* --------------------------------------------- TimeInterval, Channel, Station
\* TimeInterval.__init__ (download_status.py:325-329).
TimeInterval(start, end) ==
    [start |-> start, end |-> end, filename |-> NoFilename, status |-> "none"]

\* Channel.__init__ (download_status.py:261-264).
Channel(location, channel, intervals) ==
    [location |-> location, channel |-> channel, intervals |-> intervals]

\* Station.__init__ (download_status.py:70-87).  The three dicts are sets of
\* <<(location, channel), (start, end)>> items.
Station(network, station, latitude, longitude, channels) ==
    [network |-> network, station |-> station,
     latitude |-> latitude, longitude |-> longitude,
     channels |-> channels, stationxml_filename |-> NoFilename,
     want_station_information |-> {},
     miss_station_information |-> {},
     have_station_information |-> {}]

Keys(dict) == {item[1] : item \in dict}
ChannelKey(ch) == <<ch.location, ch.channel>>
StationId(st) == <<st.network, st.station>>

\* Channel.wants_station_information (download_status.py:266-279).
wants_station_information(ch) ==
    \E i \in DOMAIN ch.intervals :
        ch.intervals[i].status \in {"downloaded", "exists"}

\* Channel.temporal_bounds (download_status.py:281-287).
Channel_temporal_bounds(ch) ==
    << MinOf({ch.intervals[i].start : i \in DOMAIN ch.intervals}),
       MaxOf({ch.intervals[i].end : i \in DOMAIN ch.intervals}) >>

\* Station.temporal_bounds (download_status.py:102-113).
Station_temporal_bounds(st) ==
    << MinOf({Channel_temporal_bounds(st.channels[c])[1] :
                  c \in DOMAIN st.channels}),
       MaxOf({Channel_temporal_bounds(st.channels[c])[2] :
                  c \in DOMAIN st.channels}) >>

\* The rows of a StationXML file about one channel of a station
\* (download_status.py:182-186 and 469-473).
ChannelInfo(info, st, c_id) ==
    {row \in info : /\ row.network = st.network
                    /\ row.station = st.station
                    /\ row.location = c_id[1]
                    /\ row.channel = c_id[2]}

\* download_status.py:187-192 and 474-478: the file's rows about c_id exist
\* and span the wanted times.
Covered(info, st, c_id, times) ==
    LET c_info == ChannelInfo(info, st, c_id)
    IN  /\ c_info # {}
        /\ ~ (\/ MinOf({row.starttime : row \in c_info}) > times[1]
              \/ MaxOf({row.endtime : row \in c_info}) < times[2])

\* prepare_stationxml_download that keeps what the file covers and misses
\* only the rest.
Station_prepare_stationxml_download_partial(st, xfs) ==
    LET want == { <<ChannelKey(st.channels[c]),
                    Channel_temporal_bounds(st.channels[c])>> :
                  c \in {k \in DOMAIN st.channels :
                            wants_station_information(st.channels[k])} }
        filename == get_stationxml_filename(st.network, st.station)
        have == IF Exists(xfs, filename)
                THEN {item \in want :
                         Covered(Read(xfs, filename).content, st,
                                 item[1], item[2])}
                ELSE {}
    IN  [st EXCEPT !.want_station_information = want,
                   !.stationxml_filename = filename,
                   !.miss_station_information = want \ have,
                   !.have_station_information = have]

\* Station.prepare_stationxml_download (download_status.py:141-205).
Station_prepare_stationxml_download(st, xfs) ==
    LET want == { <<ChannelKey(st.channels[c]),
                    Channel_temporal_bounds(st.channels[c])>> :
                  c \in {k \in DOMAIN st.channels :
                            wants_station_information(st.channels[k])} }
        filename == get_stationxml_filename(st.network, st.station)
        all_good == /\ Exists(xfs, filename)
                    /\ \A item \in want :
                          Covered(Read(xfs, filename).content, st,
                                  item[1], item[2])
    IN  [st EXCEPT !.want_station_information = want,
                   !.stationxml_filename = filename,
                   !.miss_station_information =
                        IF all_good THEN {} ELSE want,
                   !.have_station_information =
                        IF all_good THEN want ELSE {}]

\* The loop body with the two tests of download_status.py:225-228 merged:
\* what is not on disk is ignored.
PrepareInterval_merged(st, ch, interval, storage, fs) ==
    LET filename == get_mseed_filename(storage, st.network, st.station,
                        ch.location, ch.channel, interval.start, interval.end)
    IN  [interval EXCEPT
            !.filename = filename,
            !.status = IF filename = IgnoreSentinel \/ ~ Exists(fs, filename)
                       THEN "ignore"
                       ELSE "exists"]

\* The body of the interval loop of Station.prepare_mseed_download
\* (download_status.py:221-232).
PrepareInterval(st, ch, interval, storage, fs) ==
    LET filename == get_mseed_filename(storage, st.network, st.station,
                        ch.location, ch.channel, interval.start, interval.end)
    IN  [interval EXCEPT
            !.filename = filename,
            !.status = IF filename = IgnoreSentinel THEN "ignore"
                       ELSE IF Exists(fs, filename) THEN "exists"
                       ELSE "needs_downloading"]

\* Station.prepare_mseed_download (download_status.py:207-232).
Station_prepare_mseed_download(st, storage, fs) ==
    [st EXCEPT !.channels =
        [c \in DOMAIN st.channels |->
            [st.channels[c] EXCEPT !.intervals =
                [i \in DOMAIN st.channels[c].intervals |->
                    PrepareInterval(st, st.channels[c],
                                    st.channels[c].intervals[i],
                                    storage, fs)]]]]

\* The methods of the logging.Logger that download() hands to the helpers
\* (download_helpers.py:31).
LoggerMethods == {"debug", "info", "warning", "warn", "error", "critical"}

\* Station.sanitize_downloads (download_status.py:234-251) on one station:
\* [station, files, exc].  The loop body first calls logger.warnings, which a
\* Logger does not have, and then indexes the list self.channels with the
\* (location, channel) tuple.
Station_sanitize_downloads(st, fs) ==
    IF st.miss_station_information = {}
    THEN [station |-> st, files |-> fs, exc |-> ""]
    ELSE IF "warnings" \notin LoggerMethods
         THEN [station |-> st, files |-> fs, exc |-> "AttributeError"]
         ELSE [station |-> st, files |-> fs, exc |-> "TypeError"]

\* ------------------------------------------------------ ClientDownloadHelper
\* The (station, channel, interval) index triples in the iteration order of
\* "for sta in self.stations.values(): for cha in sta.channels: for interval
\* in cha.intervals" (download_status.py:514-525, 628-630).
Positions(sts) ==
    Concat([s \in DOMAIN sts |->
        Concat([c \in DOMAIN sts[s].channels |->
            [i \in DOMAIN sts[s].channels[c].intervals |-> <<s, c, i>>]])])

IntervalAt(sts, p) == sts[p[1]].channels[p[2]].intervals[p[3]]

SetStatus(sts, p, status) ==
    [sts EXCEPT ![p[1]].channels[p[2]].intervals[p[3]].status = status]

\* os.path.dirname of a waveform path: the storage keeps one directory per
\* station.
dirname(path) == SubSeq(path, 1, 2)

\* The directories os.makedirs creates in Station.prepare_mseed_download
\* (download_status.py:230-231): those of the NEEDS_DOWNLOADING intervals
\* that do not exist yet.
MadeDirs(st, storage, fs, ds) ==
    LET prepared == Station_prepare_mseed_download(st, storage, fs)
    IN  { dirname(IntervalAt(<<prepared>>, p).filename) :
            p \in {n \in Range(Positions(<<prepared>>)) :
                      IntervalAt(<<prepared>>, n).status
                          = "needs_downloading"} } \ ds

\* QC without the "continue" of the minimum-length branch: the file is
\* deleted and counted, and the interval then falls through to DOWNLOADED.
check_interval_fallthrough(q, p, r) ==
    LET interval == IntervalAt(q.stations, p)
        st == IF Exists(q.files, interval.filename)
              THEN Read(q.files, interval.filename).content
              ELSE Content("zero", 0)
        failed == [q EXCEPT
                    !.stations = SetStatus(q.stations, p, "download_failed")]
        deleted == [q EXCEPT
                    !.files = safe_delete(q.files, interval.filename)]
    IN  IF interval.status # "needs_downloading" THEN q
        ELSE IF ~ Exists(q.files, interval.filename) THEN failed
        ELSE IF st.size = 0
             THEN [failed EXCEPT !.files = deleted.files]
        ELSE IF ~ st.readable \/ st.traces = 0
             THEN [failed EXCEPT
                     !.files = deleted.files,
                     !.discarded_bytes = q.discarded_bytes + st.size]
        ELSE IF r.reject_channels_with_gaps /\ st.traces > 1
             THEN [q EXCEPT !.exc = "TypeError"]
        ELSE IF r.minimum_length # 0
             THEN [deleted EXCEPT
                     !.stations = SetStatus(q.stations, p, "downloaded"),
                     !.discarded_bytes = q.discarded_bytes + st.size,
                     !.downloaded_bytes = q.downloaded_bytes + st.size]
        ELSE [q EXCEPT
                !.stations = SetStatus(q.stations, p, "downloaded"),
                !.downloaded_bytes = q.downloaded_bytes + st.size]

\* QC without the status test of download_status.py:632: every interval is
\* classified again, whatever prepare_mseed_download decided.
check_interval_unguarded(q, p, r) ==
    LET interval == IntervalAt(q.stations, p)
        st == IF Exists(q.files, interval.filename)
              THEN Read(q.files, interval.filename).content
              ELSE Content("zero", 0)
        failed == [q EXCEPT
                    !.stations = SetStatus(q.stations, p, "download_failed")]
        deleted == [q EXCEPT
                    !.files = safe_delete(q.files, interval.filename)]
    IN  IF ~ Exists(q.files, interval.filename) THEN failed
        ELSE IF st.size = 0
             THEN [failed EXCEPT !.files = deleted.files]
        ELSE IF ~ st.readable \/ st.traces = 0
             THEN [failed EXCEPT
                     !.files = deleted.files,
                     !.discarded_bytes = q.discarded_bytes + st.size]
        ELSE IF r.reject_channels_with_gaps /\ st.traces > 1
             THEN [q EXCEPT !.exc = "TypeError"]
        ELSE IF r.minimum_length # 0
             THEN [deleted EXCEPT
                     !.stations =
                         SetStatus(q.stations, p, "download_rejected"),
                     !.discarded_bytes = q.discarded_bytes + st.size]
        ELSE [q EXCEPT
                !.stations = SetStatus(q.stations, p, "downloaded"),
                !.downloaded_bytes = q.downloaded_bytes + st.size]

\* QC that forgets "discarded_bytes += size" for files it cannot read and
\* for files without traces.
check_interval_uncounted(q, p, r) ==
    LET interval == IntervalAt(q.stations, p)
        st == IF Exists(q.files, interval.filename)
              THEN Read(q.files, interval.filename).content
              ELSE Content("zero", 0)
        failed == [q EXCEPT
                    !.stations = SetStatus(q.stations, p, "download_failed")]
        deleted == [q EXCEPT
                    !.files = safe_delete(q.files, interval.filename)]
    IN  IF interval.status # "needs_downloading" THEN q
        ELSE IF ~ Exists(q.files, interval.filename) THEN failed
        ELSE IF st.size = 0
             THEN [failed EXCEPT !.files = deleted.files]
        ELSE IF ~ st.readable \/ st.traces = 0
             THEN [failed EXCEPT !.files = deleted.files]
        ELSE IF r.reject_channels_with_gaps /\ st.traces > 1
             THEN [q EXCEPT !.exc = "TypeError"]
        ELSE IF r.minimum_length # 0
             THEN [deleted EXCEPT
                     !.stations =
                         SetStatus(q.stations, p, "download_rejected"),
                     !.discarded_bytes = q.discarded_bytes + st.size]
        ELSE [q EXCEPT
                !.stations = SetStatus(q.stations, p, "downloaded"),
                !.downloaded_bytes = q.downloaded_bytes + st.size]

\* The loop body counting an unreadable or trace-less file without deleting
\* it.
check_interval_keepfile(q, p, r) ==
    LET interval == IntervalAt(q.stations, p)
        st == IF Exists(q.files, interval.filename)
              THEN Read(q.files, interval.filename).content
              ELSE Content("zero", 0)
        failed == [q EXCEPT
                    !.stations = SetStatus(q.stations, p, "download_failed")]
        deleted == [q EXCEPT
                    !.files = safe_delete(q.files, interval.filename)]
    IN  IF interval.status # "needs_downloading" THEN q
        ELSE IF ~ Exists(q.files, interval.filename) THEN failed
        ELSE IF st.size = 0
             THEN [failed EXCEPT !.files = deleted.files]
        ELSE IF ~ st.readable \/ st.traces = 0
             THEN [failed EXCEPT
                     !.discarded_bytes = q.discarded_bytes + st.size]
        ELSE IF r.reject_channels_with_gaps /\ st.traces > 1
             THEN [q EXCEPT !.exc = "TypeError"]
        ELSE IF r.minimum_length # 0
             THEN [deleted EXCEPT
                     !.stations =
                         SetStatus(q.stations, p, "download_rejected"),
                     !.discarded_bytes = q.discarded_bytes + st.size]
        ELSE [q EXCEPT
                !.stations = SetStatus(q.stations, p, "downloaded"),
                !.downloaded_bytes = q.downloaded_bytes + st.size]

\* The body of the interval loop of _check_downloaded_data
\* (download_status.py:631-700) on the QC state q = [stations, files,
\* downloaded_bytes, discarded_bytes, exc].
check_interval(q, p, r) ==
    LET interval == IntervalAt(q.stations, p)
        st == IF Exists(q.files, interval.filename)
              THEN Read(q.files, interval.filename).content
              ELSE Content("zero", 0)
        failed == [q EXCEPT
                    !.stations = SetStatus(q.stations, p, "download_failed")]
        deleted == [q EXCEPT
                    !.files = safe_delete(q.files, interval.filename)]
    IN  IF interval.status # "needs_downloading" THEN q
        ELSE IF ~ Exists(q.files, interval.filename) THEN failed
        ELSE IF st.size = 0
             THEN [failed EXCEPT !.files = deleted.files]
        ELSE IF ~ st.readable \/ st.traces = 0
             THEN [failed EXCEPT
                     !.files = deleted.files,
                     !.discarded_bytes = q.discarded_bytes + st.size]
        \* download_status.py:672-676: the log call evaluates len(str).
        ELSE IF r.reject_channels_with_gaps /\ st.traces > 1
             THEN [q EXCEPT !.exc = "TypeError"]
        \* download_status.py:682-697: delete, count and reject are at the
        \* indentation of the duration test, not inside it.
        ELSE IF r.minimum_length # 0
             THEN [deleted EXCEPT
                     !.stations =
                         SetStatus(q.stations, p, "download_rejected"),
                     !.discarded_bytes = q.discarded_bytes + st.size]
        ELSE [q EXCEPT
                !.stations = SetStatus(q.stations, p, "downloaded"),
                !.downloaded_bytes = q.downloaded_bytes + st.size]

\* The QC pass stopping after the first interval.
CheckLoop_firstonly(q, ps, r) ==
    IF ps = <<>> THEN q ELSE check_interval(q, Head(ps), r)

RECURSIVE CheckLoop(_, _, _)
CheckLoop(q, ps, r) ==
    IF ps = <<>> \/ q.exc # "" THEN q
    ELSE CheckLoop(check_interval(q, Head(ps), r), Tail(ps), r)

\* ClientDownloadHelper._check_downloaded_data (download_status.py:618-701).
check_downloaded_data(sts, fs, r) ==
    CheckLoop([stations |-> sts, files |-> fs, downloaded_bytes |-> 0,
               discarded_bytes |-> 0, exc |-> ""],
              Positions(sts), r)

\* The intervals download_mseed puts into chunks (download_status.py:529).
NeedsDownloading(sts) ==
    {p \in Range(Positions(sts)) :
        IntervalAt(sts, p).status = "needs_downloading"}

\* The files on disk after the worker pool of download_mseed has returned
\* (download_status.py:576-582): utils.download_and_split_mseed_bulk wrote,
\* for each requested interval, what the data centre delivered for it.
AfterBulk(fs, sts, delivered) ==
    fs \cup { [path |-> IntervalAt(sts, p).filename,
               content |-> Content(delivered[p],
                              IntervalAt(sts, p).end
                                  - IntervalAt(sts, p).start)] :
              p \in {n \in DOMAIN delivered : delivered[n] # "missing"} }

\* The loop stopping after the first key it deleted.
discard_stations_firstonly(sts, station_ids) ==
    LET hits == {k \in DOMAIN sts : StationId(sts[k]) \in station_ids}
    IN  IF hits = {} THEN sts
        ELSE [k \in 1..(Len(sts) - 1) |->
                 IF k < MinOf(hits) THEN sts[k] ELSE sts[k + 1]]

\* ClientDownloadHelper.discard_stations (download_status.py:739-750).
discard_stations(sts, station_ids) ==
    SelectSeq(sts, LAMBDA st : StationId(st) \notin station_ids)

\* The loop over the items of miss_station_information in download_stationxml
\* (download_status.py:465-481): [have, still_missing] after the loop.
RECURSIVE StillMissingLoop(_, _, _, _, _)
StillMissingLoop(items, info, st, have, still_missing) ==
    IF items = <<>> THEN [have |-> have, still_missing |-> still_missing]
    ELSE LET c_id == Head(items)[1]
             times == Head(items)[2]
         IN  IF ChannelInfo(info, st, c_id) = {}
             \* download_status.py:474-475: break
             THEN [have |-> have, still_missing |-> still_missing]
             ELSE IF ~ Covered(info, st, c_id, times)
             THEN StillMissingLoop(Tail(items), info, st, have,
                                   still_missing \cup {Head(items)})
             ELSE StillMissingLoop(Tail(items), info, st,
                      {h \in have : h[1] # c_id} \cup {Head(items)},
                      still_missing)

\* dict.items() of a station's miss_station_information, in insertion order
\* (that of the station's channels).
MissItems(st) ==
    LET wanted == SelectSeq(st.channels, LAMBDA ch :
                      ChannelKey(ch) \in Keys(st.miss_station_information))
    IN  [k \in DOMAIN wanted |->
            CHOOSE item \in st.miss_station_information :
                item[1] = ChannelKey(wanted[k])]

\* download_status.py:458-482 for one returned (s_id, filename).
UpdateStation(st, info) ==
    LET res == StillMissingLoop(MissItems(st), info, st,
                                st.have_station_information, {})
    IN  [st EXCEPT !.have_station_information = res.have,
                   !.miss_station_information = res.still_missing]

\* The rows a data centre's StationXML holds for one channel.
Rows(st, ch, coverage) ==
    IF coverage = "absent" THEN {}
    ELSE {[network |-> st.network, station |-> st.station,
           location |-> ch.location, channel |-> ch.channel,
           starttime |-> Station_temporal_bounds(st)[1]
                            + (IF coverage = "late" THEN 1 ELSE 0),
           endtime |-> Station_temporal_bounds(st)[2]]}

Coverages == {"absent", "late", "covers"}

\* The possible results of utils.download_stationxml for one station: the
\* request failed (None), or a file with some rows for each channel of the
\* bulk request (download_status.py:434-438).
XmlResults(st, coverages) ==
    {[ok |-> FALSE, coverage |-> [c \in DOMAIN st.channels |-> "absent"]]}
    \cup {[ok |-> TRUE, coverage |-> f] :
             f \in [DOMAIN st.channels -> coverages]}

XmlInfo(st, result) ==
    UNION {Rows(st, st.channels[c], result.coverage[c]) :
              c \in DOMAIN st.channels}

\* ------------------------------------------------------- get_availability
\* download_status.py:841-865: the channels of one station of the inventory
\* that cover the requested time span, each with its own copy of intervals.
TemporalChannels(raw, r, intervals) ==
    LET kept == SelectSeq(raw, LAMBDA ch :
                    ~ (ch.start_date > r.starttime \/ ch.end_date < r.endtime))
    IN  [k \in DOMAIN kept |->
            Channel(kept[k].location_code, kept[k].code, intervals)]

\* The same filter looking at the operating interval only, whatever was
\* requested.
TemporalChannelsWith_operatingonly(raw, r, intervals, includeavailability) ==
    TemporalChannels(raw, r, intervals)

\* download_status.py:841-865 with arguments["includeavailability"] as a
\* parameter: when it is set, a channel also needs a data_availability that
\* covers the time span (lines 848-862).
TemporalChannelsWith(raw, r, intervals, includeavailability) ==
    LET kept == SelectSeq(raw, LAMBDA ch :
                    /\ ~ (ch.start_date > r.starttime
                             \/ ch.end_date < r.endtime)
                    /\ includeavailability =>
                          /\ ch.data_availability # None
                          /\ ~ (ch.data_availability[1].start > r.starttime
                                  \/ ch.data_availability[1].end
                                         < r.endtime))
    IN  [k \in DOMAIN kept |->
            Channel(kept[k].location_code, kept[k].code, intervals)]

\* download_status.py:867-876: group by location (sorted), channel priority
\* filter within each group.
GroupByLocation(channels, priorities) ==
    Concat([l \in DOMAIN SortedLocations |->
        LET group == SelectSeq(channels,
                         LAMBDA ch : ch.location = SortedLocations[l])
        IN  IF group = <<>> THEN <<>>
            ELSE filter_channel_priority(group, "channel", priorities)])

\* The station without the location priority filter of lines 878-882.
AvailableStation_nolocation(network, sta, r, intervals) ==
    LET channels == GroupByLocation(
                        TemporalChannels(sta.channels, r, intervals),
                        r.channel_priorities)
    IN  IF channels = <<>> THEN <<>>
        ELSE << Station(network, sta.code, sta.latitude, sta.longitude,
                        channels) >>

\* download_status.py:832-892 for one station of the inventory: <<Station>>,
\* or <<>> when no channel is left.
AvailableStation(network, sta, r, intervals) ==
    LET channels == filter_channel_priority(
                        GroupByLocation(
                            TemporalChannels(sta.channels, r, intervals),
                            r.channel_priorities),
                        "location", r.location_priorities)
    IN  IF channels = <<>> THEN <<>>
        ELSE << Station(network, sta.code, sta.latitude, sta.longitude,
                        channels) >>

\* ClientDownloadHelper.get_availability (download_status.py:752-895): the
\* stations map after the call.  response.error is the text of the error
\* client.get_stations raised ("" when it returned response.inventory); both
\* kinds of error are logged and leave the map empty (lines 816-825).  The
\* Domain has no is_in_domain (needs_filtering is False) and the client
\* advertises neither matchtimeseries nor includeavailability.
get_availability(response, r) ==
    IF response.error # "" THEN <<>>
    ELSE LET intervals ==
                 [k \in DOMAIN Restrictions_iter(r) |->
                     TimeInterval(Restrictions_iter(r)[k][1],
                                  Restrictions_iter(r)[k][2])]
         IN  Concat([n \in DOMAIN response.inventory |->
                 AvailableStation(response.inventory[n].network,
                                  response.inventory[n], r, intervals)])

\* AvailableStation and get_availability for a client asked with
\* includeavailability (download_status.py:790-792, 798-800).
AvailableStationWith(network, sta, r, intervals, includeavailability) ==
    LET channels == filter_channel_priority(
                        GroupByLocation(
                            TemporalChannelsWith(sta.channels, r, intervals,
                                                 includeavailability),
                            r.channel_priorities),
                        "location", r.location_priorities)
    IN  IF channels = <<>> THEN <<>>
        ELSE << Station(network, sta.code, sta.latitude, sta.longitude,
                        channels) >>

get_availability_with(response, r, includeavailability) ==
    IF response.error # "" THEN <<>>
    ELSE LET intervals ==
                 [k \in DOMAIN Restrictions_iter(r) |->
                     TimeInterval(Restrictions_iter(r)[k][1],
                                  Restrictions_iter(r)[k][2])]
         IN  Concat([n \in DOMAIN response.inventory |->
                 AvailableStationWith(response.inventory[n].network,
                                      response.inventory[n], r, intervals,
                                      includeavailability)])

\* ------------------------------------------------- provider answers (inputs)
RawChannel(location_code, code, start_date, end_date) ==
    [location_code |-> location_code, code |-> code,
     start_date |-> start_date, end_date |-> end_date]

RawStation(network, code, longitude, channels) ==
    [network |-> network, code |-> code, latitude |-> 0,
     longitude |-> longitude, channels |-> channels]

NoData == [error |-> "no data available", inventory |-> <<>>]
Timeout == [error |-> "timeout", inventory |-> <<>>]
Inventory(stas) == [error |-> "", inventory |-> stas]

\* Station A with two HH channels and a BH channel.
InvA == Inventory(<< RawStation("BW", "A", 0,
            << RawChannel(LocEmpty, HHZ, 0, EndTime),
               RawChannel(LocEmpty, HHN, 0, EndTime),
               RawChannel(LocEmpty, BHZ, 0, EndTime) >>) >>)
\* Station A (its HHZ epoch starts too late) and a far station B.
InvAB == Inventory(<< RawStation("BW", "A", 0,
             << RawChannel(LocEmpty, HHZ, 1, EndTime),
                RawChannel(LocEmpty, BHZ, 0, EndTime) >>),
           RawStation("BW", "B", 20,
             << RawChannel(Loc00, HHZ, 0, EndTime),
                RawChannel(LocEmpty, LHZ, 0, EndTime) >>) >>)
\* Station A alone, and a station C about 111 m east of A.
InvA1 == Inventory(<< RawStation("BW", "A", 0,
             << RawChannel(LocEmpty, HHZ, 0, EndTime) >>) >>)
InvC == Inventory(<< RawStation("GR", "C", 1,
             << RawChannel(LocEmpty, HHZ, 0, EndTime) >>) >>)

\* --------------------------------------------------------------- actions
\* No QC pass is under way.
NoQC == [stations |-> <<>>, files |-> {}, downloaded_bytes |-> 0,
         discarded_bytes |-> 0]

\* The end of one iteration of the client loop of download()
\* (download_helpers.py:254): the next client, or "return report".
Advance ==
    /\ cur' = cur + 1
    /\ pc' = IF cur < Len(clients) THEN "get_availability" ELSE "done"

\* The availability step without the "continue" of line 271.
GetAvailability_nocontinue ==
    /\ pc = "get_availability"
    /\ \E response \in served.responses :
          /\ stations' = get_availability(response, restrictions)
          /\ report' = report
          /\ pc' = "discard_stations"
          /\ cur' = cur
    /\ UNCHANGED <<restrictions, mseed_storage, served, clients, files,
                   xmlfiles, existing_stations, discarded_station_ids,
                   requested, exc, arg, ret,
                   dirs, qc, arguments>>

\* download_helpers.py:260-271.
GetAvailability ==
    /\ pc = "get_availability"
    /\ \E response \in served.responses :
          LET sts == get_availability(response, restrictions)
          IN  /\ stations' = sts
              /\ IF sts = <<>>
                 THEN /\ report' = Append(report,
                              [client |-> clients[cur], data |-> <<>>])
                      /\ Advance
                 ELSE /\ report' = report
                      /\ pc' = "discard_stations"
                      /\ cur' = cur
    /\ UNCHANGED <<restrictions, mseed_storage, served, clients, files,
                   xmlfiles, existing_stations, discarded_station_ids,
                   requested, exc, arg, ret,
                   dirs, qc, arguments>>

\* download_helpers.py:276-285.
DiscardStations ==
    /\ pc = "discard_stations"
    /\ LET sts == discard_stations(stations,
                      existing_stations \cup discarded_station_ids)
       IN  /\ stations' = sts
           /\ IF sts = <<>>
              THEN /\ report' = Append(report,
                           [client |-> clients[cur], data |-> <<>>])
                   /\ Advance
              ELSE /\ report' = report
                   /\ pc' = "prepare_mseed_download"
                   /\ cur' = cur
    /\ UNCHANGED <<restrictions, mseed_storage, served, clients, files,
                   xmlfiles, existing_stations, discarded_station_ids,
                   requested, exc, arg, ret,
                   dirs, qc, arguments>>

\* The filename planning followed at once by the metadata phase.
PrepareMseedDownload_skipdownload ==
    /\ pc = "prepare_mseed_download"
    /\ stations' = [s \in DOMAIN stations |->
           Station_prepare_mseed_download(stations[s], mseed_storage, files)]
    /\ dirs' = dirs \cup UNION {MadeDirs(stations[s], mseed_storage, files,
                                          dirs) : s \in DOMAIN stations}
    /\ pc' = "prepare_stationxml_download"
    /\ UNCHANGED <<restrictions, mseed_storage, served, clients, cur, files,
                   xmlfiles, existing_stations, discarded_station_ids,
                   report, requested, exc, arg, ret, qc, arguments>>

\* ClientDownloadHelper.prepare_mseed_download (download_status.py:389-397),
\* called at download_helpers.py:311.
PrepareMseedDownload ==
    /\ pc = "prepare_mseed_download"
    /\ stations' = [s \in DOMAIN stations |->
           Station_prepare_mseed_download(stations[s], mseed_storage, files)]
    /\ dirs' = dirs \cup UNION {MadeDirs(stations[s], mseed_storage, files,
                                          dirs) : s \in DOMAIN stations}
    /\ pc' = "download_mseed"
    /\ UNCHANGED <<restrictions, mseed_storage, served, clients, cur, files,
                   xmlfiles, existing_stations, discarded_station_ids,
                   report, requested, exc, arg, ret, qc, arguments>>

\* The stations with an interval in a chunk of the bulk request
\* (download_status.py:531-533), with the client asked.
Requests(sts, client) ==
    {[client |-> client, network |-> sts[p[1]].network,
      station |-> sts[p[1]].station, latitude |-> sts[p[1]].latitude,
      longitude |-> sts[p[1]].longitude] : p \in NeedsDownloading(sts)}

\* ClientDownloadHelper.download_mseed (download_status.py:491-607), called
\* at download_helpers.py:312: chunks, worker pool, then the QC pass.
DownloadMseed ==
    /\ pc = "download_mseed"
    /\ IF NeedsDownloading(stations) = {}
       THEN /\ pc' = "prepare_stationxml_download"
            /\ UNCHANGED <<stations, files, requested, exc, qc>>
       ELSE \E delivered \in [NeedsDownloading(stations) -> served.waveform] :
              LET q == check_downloaded_data(stations,
                           AfterBulk(files, stations, delivered),
                           restrictions)
              IN  /\ stations' = q.stations
                  /\ files' = q.files
                  /\ requested' = requested \cup Requests(stations, cur)
                  /\ exc' = q.exc
                  /\ qc' = [stations |-> stations,
                            files |-> AfterBulk(files, stations, delivered),
                            downloaded_bytes |-> q.downloaded_bytes,
                            discarded_bytes |-> q.discarded_bytes]
                  /\ pc' = IF q.exc # "" THEN "raised"
                           ELSE "prepare_stationxml_download"
    /\ UNCHANGED <<restrictions, mseed_storage, served, clients, cur,
                   xmlfiles, existing_stations, discarded_station_ids,
                   report, arg, ret, dirs, arguments>>

\* Channel.temporal_bounds (download_status.py:281-287) takes min() and
\* max() of empty lists: ValueError.
NoTemporalBounds(sts) ==
    \E s \in DOMAIN sts : \E c \in DOMAIN sts[s].channels :
        sts[s].channels[c].intervals = <<>>

\* ClientDownloadHelper.prepare_stationxml_download
\* (download_status.py:399-408), called at download_helpers.py:316.
PrepareStationxmlDownload ==
    /\ pc = "prepare_stationxml_download"
    /\ IF NoTemporalBounds(stations)
       \* Every channel has a copy of the same empty list of intervals: the
       \* first station raises at line 158 with nothing set but its empty
       \* want_station_information.
       THEN /\ stations' = stations
            /\ pc' = "raised"
            /\ exc' = "ValueError"
       ELSE /\ stations' = [s \in DOMAIN stations |->
                   Station_prepare_stationxml_download(stations[s],
                                                       xmlfiles)]
            /\ pc' = "download_stationxml"
            /\ exc' = exc
    \* download_mseed has returned: its locals are gone.
    /\ qc' = NoQC
    /\ UNCHANGED <<restrictions, mseed_storage, served, clients, cur, files,
                   xmlfiles, existing_stations, discarded_station_ids,
                   report, requested, arg, ret, dirs, arguments>>

\* A request for every station, whether it misses anything or not.
MissingStations_all(sts) == DOMAIN sts

\* The stations download_stationxml builds a request for
\* (download_status.py:431-438).
MissingStations(sts) ==
    {s \in DOMAIN sts : sts[s].miss_station_information # {}}

\* The arguments list of download_stationxml (download_status.py:430-438):
\* one entry per station that misses station information, with the bulk of
\* all its channels over the station's temporal bounds, and whether
\* star_download_station returned a value for it.
StationArguments(sts, results) ==
    LET missing == SelectSeq([s \in DOMAIN sts |-> s],
                       LAMBDA s : s \in MissingStations(sts))
    IN  [k \in DOMAIN missing |->
            [network |-> sts[missing[k]].network,
             station |-> sts[missing[k]].station,
             bulk |-> [c \in DOMAIN sts[missing[k]].channels |->
                          << ChannelKey(sts[missing[k]].channels[c]),
                             Station_temporal_bounds(sts[missing[k]]) >>],
             filename |-> sts[missing[k]].stationxml_filename,
             returned |-> results[missing[k]].ok]]

\* ClientDownloadHelper.download_stationxml (download_status.py:410-489),
\* called at download_helpers.py:317.
DownloadStationxml ==
    /\ pc = "download_stationxml"
    /\ IF MissingStations(stations) = {}
       THEN /\ arguments' = <<>>
            /\ UNCHANGED <<stations, xmlfiles>>
       ELSE \E results \in
                 [MissingStations(stations) ->
                     UNION {XmlResults(stations[s], served.stationxml) :
                               s \in MissingStations(stations)}] :
              /\ \A s \in MissingStations(stations) :
                    results[s] \in XmlResults(stations[s], served.stationxml)
              /\ arguments' = StationArguments(stations, results)
              /\ xmlfiles' =
                    {f \in xmlfiles :
                        \A s \in MissingStations(stations) :
                            results[s].ok =>
                                f.path # stations[s].stationxml_filename}
                    \cup {[path |-> stations[s].stationxml_filename,
                           content |-> XmlInfo(stations[s], results[s])] :
                          s \in {m \in MissingStations(stations) :
                                    results[m].ok}}
              /\ stations' = [s \in DOMAIN stations |->
                    IF s \in MissingStations(stations) /\ results[s].ok
                    THEN UpdateStation(stations[s],
                                       XmlInfo(stations[s], results[s]))
                    ELSE stations[s]]
    /\ pc' = "sanitize_downloads"
    /\ UNCHANGED <<restrictions, mseed_storage, served, clients, cur, files,
                   existing_stations, discarded_station_ids, report,
                   requested, exc, arg, ret, dirs, qc>>

RECURSIVE SanitizeLoop(_, _, _)
\* ClientDownloadHelper.sanitize_downloads (download_status.py:609-616) from
\* station s on: [stations, files, exc].
SanitizeLoop(sts, s, fs) ==
    IF s > Len(sts) THEN [stations |-> sts, files |-> fs, exc |-> ""]
    ELSE LET one == Station_sanitize_downloads(sts[s], fs)
         IN  IF one.exc # ""
             THEN [stations |-> [sts EXCEPT ![s] = one.station],
                   files |-> one.files, exc |-> one.exc]
             ELSE SanitizeLoop([sts EXCEPT ![s] = one.station], s + 1,
                               one.files)

\* download_helpers.py:321, and the end of the loop body.
SanitizeDownloads ==
    /\ pc = "sanitize_downloads"
    /\ LET res == SanitizeLoop(stations, 1, files)
       IN  /\ stations' = res.stations
           /\ files' = res.files
           /\ exc' = res.exc
           /\ IF res.exc # ""
              THEN pc' = "raised" /\ cur' = cur
              ELSE Advance
    /\ UNCHANGED <<restrictions, mseed_storage, served, clients, xmlfiles,
                   existing_stations, discarded_station_ids, report,
                   requested, arg, ret,
                   dirs, qc, arguments>>

Next ==
    \/ GetAvailability
    \/ DiscardStations
    \/ PrepareMseedDownload
    \/ DownloadMseed
    \/ PrepareStationxmlDownload
    \/ DownloadStationxml
    \/ SanitizeDownloads

\* ------------------------------------------------------------ initial states
\* Restrictions of the single-client specification.
SpecRestrictions ==
    {Restrictions(0, EndTime, c, g, m) :
        c \in {None, Some(ChunkLen)}, g \in BOOLEAN, m \in {0, 90}}

\* The first file of station BW.A, channel HHZ.
FirstFileA(r, kind) ==
    LET first == Restrictions_iter(r)[1]
    IN  [path |-> get_mseed_filename("template", "BW", "A", LocEmpty, HHZ,
                                     first[1], first[2]),
         content |-> Content(kind, first[2] - first[1])]

\* A StationXML file of station BW.A that covers channel HHZ only.
XmlFileA(r) ==
    [path |-> get_stationxml_filename("BW", "A"),
     content |-> {[network |-> "BW", station |-> "A", location |-> LocEmpty,
                   channel |-> HHZ, starttime |-> r.starttime,
                   endtime |-> r.endtime]}]

\* Disk contents and storage hints a run may start with.
Worlds(r) ==
    {[files |-> {}, xmlfiles |-> {}, mseed_storage |-> "template"],
     [files |-> {}, xmlfiles |-> {}, mseed_storage |-> "callable"],
     [files |-> {FirstFileA(r, "full")}, xmlfiles |-> {},
      mseed_storage |-> "template"],
     [files |-> {FirstFileA(r, "zero")}, xmlfiles |-> {},
      mseed_storage |-> "template"],
     [files |-> {FirstFileA(r, "full")}, xmlfiles |-> {XmlFileA(r)},
      mseed_storage |-> "template"],
     [files |-> {FirstFileA(r, "full")}, xmlfiles |-> {},
      mseed_storage |-> "callable"]}

ProviderNames == <<"IRIS", "ORFEUS", "BGR", "ETH", "GFZ">>

InitDownload(rs, cls, srv) ==
    /\ restrictions \in rs
    /\ \E w \in Worlds(restrictions) :
          /\ files = w.files
          /\ xmlfiles = w.xmlfiles
          /\ mseed_storage = w.mseed_storage
    /\ served = srv
    /\ clients = cls
    /\ pc = IF cls = <<>> THEN "done" ELSE "get_availability"
    /\ cur = 1
    /\ stations = <<>>
    /\ existing_stations = {}
    /\ discarded_station_ids = {}
    /\ report = <<>>
    /\ requested = {}
    /\ exc = ""
    /\ dirs = {dirname(f.path) : f \in files}
    /\ qc = NoQC
    /\ arguments = <<>>
    /\ arg = <<>>
    /\ ret = <<>>

\* One client, every kind of answer.
Init ==
    InitDownload(SpecRestrictions, SubSeq(ProviderNames, 1, 1),
                 [waveform |-> FileKinds, stationxml |-> Coverages,
                  responses |-> {NoData, Timeout, InvA, InvAB}])

Spec == Init /\ [][Next]_vars

\* Several clients in their configured order; complete or absent answers.
InitRun ==
    InitDownload({Restrictions(0, EndTime, None, FALSE, 0)},
                 SubSeq(ProviderNames, 1, NumProviders),
                 [waveform |-> {"missing", "full"},
                  stationxml |-> {"absent", "covers"},
                  responses |-> {NoData, Timeout, InvA1, InvC, InvAB}])

SpecRun == InitRun /\ [][Next]_vars

\* ------------------------------------- Restrictions iteration on its own
IdleRun ==
    /\ restrictions = Restrictions(0, 1, None, TRUE, 0)
    /\ mseed_storage = "template"
    /\ served = [waveform |-> {}, stationxml |-> {}, responses |-> {}]
    /\ clients = <<>>
    /\ cur = 1
    /\ stations = <<>>
    /\ files = {}
    /\ xmlfiles = {}
    /\ existing_stations = {}
    /\ discarded_station_ids = {}
    /\ report = <<>>
    /\ requested = {}
    /\ exc = ""
    /\ dirs = {}
    /\ qc = NoQC
    /\ arguments = <<>>

InitIter ==
    /\ IdleRun
    /\ pc = "iter"
    /\ \E s \in 0..(MaxTime - 1) : \E e \in (s + 1)..MaxTime :
       \E c \in {None} \cup {Some(n) : n \in 0..MaxChunk} :
            arg = Restrictions(s, e, c, TRUE, 0)
    /\ ret = <<>>

\* list(restrictions)
Iterate ==
    /\ pc = "iter"
    /\ ret' = Restrictions_iter(arg)
    /\ pc' = "iterated"
    /\ UNCHANGED <<restrictions, mseed_storage, served, clients, cur,
                   stations, files, xmlfiles, existing_stations,
                   discarded_station_ids, report, requested, exc, arg,
                   dirs, qc, arguments>>

SpecIter == InitIter /\ [][Iterate]_vars

\* ------------------------------------ filter_channel_priority on its own
\* Longest channel list and longest priority list tried.
MaxChannels == 3
MaxPriorities == 2

SeqsUpTo(S, n) == UNION {[1..k -> S] : k \in 0..n}

FilterChannels ==
    {Channel(LocEmpty, HHZ, <<>>), Channel(LocEmpty, BHZ, <<>>),
     Channel(Loc00, HHZ, <<>>), Channel(Loc10, LHZ, <<>>)}

FilterPatterns(key) ==
    IF key = "channel"
    THEN { <<Lit("H"), Lit("H"), Cls({"Z", "N"})>>,
           <<Lit("B"), Lit("H"), AnyChar>>,
           <<AnyChar, Lit("H"), Lit("Z")>>,
           <<Lit("L"), Star>> }
    ELSE { LocEmpty, <<Lit("0"), Lit("0")>>, <<AnyChar, Lit("0")>>,
           <<Star>> }

InitFilter ==
    /\ IdleRun
    /\ pc = "filter"
    /\ \E key \in {"channel", "location"} :
       \E chs \in SeqsUpTo(FilterChannels, MaxChannels) :
       \E prios \in {None} \cup
                    {Some(p) : p \in SeqsUpTo(FilterPatterns(key),
                                              MaxPriorities)} :
            arg = [channels |-> chs, key |-> key, priorities |-> prios]
    /\ ret = <<>>

\* channels = filter_channel_priority(channels, key, priorities)
FilterOnce ==
    /\ pc = "filter"
    /\ ret' = << filter_channel_priority(arg.channels, arg.key,
                                         arg.priorities) >>
    /\ pc' = "filtered"
    /\ UNCHANGED <<restrictions, mseed_storage, served, clients, cur,
                   stations, files, xmlfiles, existing_stations,
                   discarded_station_ids, report, requested, exc, arg,
                   dirs, qc, arguments>>

\* ... and once more on its own output.
FilterAgain ==
    /\ pc = "filtered"
    /\ ret' = Append(ret, filter_channel_priority(ret[1], arg.key,
                                                  arg.priorities))
    /\ pc' = "filtered_twice"
    /\ UNCHANGED <<restrictions, mseed_storage, served, clients, cur,
                   stations, files, xmlfiles, existing_stations,
                   discarded_station_ids, report, requested, exc, arg,
                   dirs, qc, arguments>>

NextFilter == FilterOnce \/ FilterAgain

SpecFilter == InitFilter /\ [][NextFilter]_vars

\* ----------------------------------------- get_availability on its own
\* Most channels a station of the answer offers.
MaxOffered == 3

\* The channels a data centre may offer for a station: four channel codes at
\* three locations, open over the whole time span, and one HHZ epoch that
\* starts too late.
OfferedChannels(r) ==
    {RawChannel(l, c, r.starttime, r.endtime) :
        l \in {LocEmpty, Loc00, Loc10}, c \in {HHZ, HHN, BHZ, LHZ}}
    \cup {RawChannel(LocEmpty, HHZ, r.starttime + 1, r.endtime)}

\* Restrictions with and without the literal filters channel="LH?" and
\* location="10", and with two channel priority lists.  __init__ stores what
\* it is given, so an empty time span with minimum_length 1.5 is among them.
AvailRestrictions ==
    {[base EXCEPT
         !.channel = c, !.location = l, !.channel_priorities = Some(p)] :
        base \in {Restrictions(0, EndTime, None, TRUE, 0),
                  Restrictions(EndTime, EndTime, None, TRUE, 150)},
        c \in {None, Some(<<Lit("L"), Lit("H"), AnyChar>>)},
        l \in {None, Some(<<Lit("1"), Lit("0")>>)},
        p \in {DefaultChannelPriorities,
               << <<Lit("H"), Lit("H"), Star>>, <<Lit("B"), Lit("H"), Star>>,
                  <<Lit("L"), Lit("H"), Star>> >>}}

\* What client.get_stations(**arguments) sends for the query
\* (download_status.py:766-775, 814): the channels it offers that match the
\* channel and location arguments.
InitAvail ==
    /\ IdleRun
    /\ pc = "availability"
    /\ \E r \in AvailRestrictions :
       \/ \E chs \in SeqsUpTo(OfferedChannels(r), MaxOffered) :
             /\ \A k \in DOMAIN chs :
                   /\ r.channel # None => fnmatch(chs[k].code, r.channel[1])
                   /\ r.location # None
                         => fnmatch(chs[k].location_code, r.location[1])
             /\ arg = [restrictions |-> r,
                       response |->
                           Inventory(<<RawStation("BW", "A", 0, chs)>>)]
       \/ \E error \in {NoData, Timeout} :
             arg = [restrictions |-> r, response |-> error]
    /\ ret = <<>>

\* helper.get_availability()
Availability ==
    /\ pc = "availability"
    /\ ret' = get_availability(arg.response, arg.restrictions)
    /\ pc' = "available"
    /\ UNCHANGED <<restrictions, mseed_storage, served, clients, cur,
                   stations, files, xmlfiles, existing_stations,
                   discarded_station_ids, report, requested, exc, arg,
                   dirs, qc, arguments>>

SpecAvail == InitAvail /\ [][Availability]_vars

\* ============================================================ properties
HasStatus(st, status) ==
    \E c \in DOMAIN st.channels : \E i \in DOMAIN st.channels[c].intervals :
        st.channels[c].intervals[i].status = status

\* The loop body of download() has run to its end for a helper that still
\* had stations: sanitize_downloads returned.  (The variable helper keeps
\* that helper until the next iteration replaces it.)
SanitizeReturned ==
    pc \in {"get_availability", "done"} /\ cur > 1 /\ stations # <<>>

\* sanitize_downloads was left by its exception.
SanitizeRaised == pc = "raised" /\ exc = "AttributeError"

\* C1: once sanitize_downloads is over (it returned, or an exception of its
\* own ended it), whatever the metadata downloads gave, a station that still
\* misses station information has no DOWNLOADED interval.
C1_NoDownloadedWhereMetadataMissing ==
    (SanitizeReturned \/ SanitizeRaised) =>
        \A s \in DOMAIN stations :
            stations[s].miss_station_information # {} =>
                ~ HasStatus(stations[s], "downloaded")

\* C2: after prepare_stationxml_download, download_stationxml and
\* sanitize_downloads have returned, every channel with a DOWNLOADED interval
\* has its (location, channel) in have_station_information.
C2_DownloadedHasMetadata ==
    SanitizeReturned =>
        \A s \in DOMAIN stations : \A c \in DOMAIN stations[s].channels :
            HasStatus([stations[s] EXCEPT
                          !.channels = <<stations[s].channels[c]>>],
                      "downloaded")
            => ChannelKey(stations[s].channels[c])
                   \in Keys(stations[s].have_station_information)

\* C3: from prepare_stationxml_download on, want_station_information is the
\* disjoint union of have_station_information and miss_station_information.
C3_WantIsHavePlusMiss ==
    pc \in {"download_stationxml", "sanitize_downloads"} =>
        \A s \in DOMAIN stations :
            /\ stations[s].want_station_information =
                   stations[s].have_station_information
                       \cup stations[s].miss_station_information
            /\ Keys(stations[s].have_station_information)
                   \cap Keys(stations[s].miss_station_information) = {}

\* The file of the interval at p exists and obspy.read parses it.
Parseable(fs, sts, p) ==
    /\ Exists(fs, IntervalAt(sts, p).filename)
    /\ Read(fs, IntervalAt(sts, p).filename).content.readable
    /\ Read(fs, IntervalAt(sts, p).filename).content.traces > 0

DownloadedAreParseable ==
    \A p \in Range(Positions(stations)) :
        IntervalAt(stations, p).status = "downloaded"
            => Parseable(files, stations, p)

\* A step that removes the file of an interval, DOWNLOADED before the step
\* or not, leaves that interval with a status other than DOWNLOADED.
DeleteChangesStatus ==
    \A p \in Range(Positions(stations)) :
        (/\ Exists(files, IntervalAt(stations, p).filename)
         /\ ~ Exists(files', IntervalAt(stations, p).filename))
        => /\ p \in Range(Positions(stations'))
           /\ IntervalAt(stations', p).status # "downloaded"

\* C4: in every state a DOWNLOADED interval has an existing, parseable file,
\* and every step that deletes such a file also changes the status.
C4_DownloadedFileExists ==
    [] DownloadedAreParseable /\ [][DeleteChangesStatus]_vars

\* QC has kept one file as DOWNLOADED and deleted the file of another
\* interval of the same station.
C4_Witness ==
    \E s \in DOMAIN stations :
        /\ HasStatus(stations[s], "downloaded")
        /\ \E c \in DOMAIN stations[s].channels :
           \E i \in DOMAIN stations[s].channels[c].intervals :
              /\ stations[s].channels[c].intervals[i].status
                     = "download_failed"
              /\ ~ Exists(files,
                          stations[s].channels[c].intervals[i].filename)

\* Great-circle distance in metres of two points on the equator whose
\* longitudes are given in millidegrees (mean Earth radius 6371 km).
great_circle_distance(a, b) == 111 * Abs(a.longitude - b.longitude)

\* C5: two different stations whose waveforms were requested from an
\* earlier and from a later client are at least
\* minimum_interstation_distance_in_m apart.
C5_MinimumInterstationDistance ==
    \A a \in requested : \A b \in requested :
        (a.client < b.client
         /\ <<a.network, a.station>> # <<b.network, b.station>>)
        => great_circle_distance(a, b)
               >= restrictions.minimum_interstation_distance_in_m

\* The step 7 condition: a DOWNLOADED or EXISTS interval and some station
\* information.
Acquired(st) ==
    /\ HasStatus(st, "downloaded") \/ HasStatus(st, "exists")
    /\ st.have_station_information # {}

\* C6: when a later client is processed (and when download returns), every
\* station the finished helper acquired is in existing_stations.
C6_AcquiredAreExisting ==
    SanitizeReturned =>
        \A s \in DOMAIN stations :
            Acquired(stations[s])
                => StationId(stations[s]) \in existing_stations

\* C7: the returned report has one entry per initialized client, in the
\* clients' order.
C7_ReportPerClient ==
    pc = "done" =>
        /\ Len(report) = Len(clients)
        /\ \A k \in DOMAIN report : report[k].client = clients[k]

\* C8: with a positive chunklength the yielded pairs partition
\* [starttime, endtime) into chunks of exactly chunklength, the last one
\* possibly shorter; with chunklength unset there is the one pair
\* (starttime, endtime).
C8_ChunksPartition ==
    pc = "iterated" =>
        /\ arg.chunklength = None
               => ret = << <<arg.starttime, arg.endtime>> >>
        /\ (arg.chunklength # None /\ arg.chunklength[1] > 0)
               => /\ Len(ret) >= 1
                  /\ ret[1][1] = arg.starttime
                  /\ ret[Len(ret)][2] = arg.endtime
                  /\ \A k \in DOMAIN ret :
                        /\ ret[k][1] < ret[k][2]
                        /\ ret[k][2] - ret[k][1] <= arg.chunklength[1]
                        /\ k < Len(ret)
                              => /\ ret[k + 1][1] = ret[k][2]
                                 /\ ret[k][2] - ret[k][1]
                                        = arg.chunklength[1]

C8_Witness ==
    /\ pc = "iterated"
    /\ arg.chunklength # None
    /\ Len(ret) >= 3
    /\ ret[Len(ret)][2] - ret[Len(ret)][1] < arg.chunklength[1]

\* C9: filtering the output of filter_channel_priority again, with the same
\* key and priorities, gives that output.
C9_FilterIdempotent ==
    pc = "filtered_twice" => ret[2] = ret[1]

C9_Witness ==
    /\ pc = "filtered_twice"
    /\ arg.priorities # None
    /\ Len(arg.priorities[1]) = 2
    /\ Len(ret[1]) = 2
    /\ Len(arg.channels) = 3
    /\ ~ fnmatch(ret[1][1][arg.key], arg.priorities[1][1])

\* The status changes of an interval, by the phase that makes them.
AllowedChange(phase, old, new) ==
    \/ new = old
    \/ /\ phase = "prepare_mseed_download"
       /\ old = "none"
       /\ new \in {"ignore", "exists", "needs_downloading"}
    \/ /\ phase = "download_mseed"
       /\ old = "needs_downloading"
       /\ new \in {"downloaded", "download_failed", "download_rejected"}
    \/ /\ phase = "sanitize_downloads"
       /\ old = "downloaded"
       /\ new = "download_rejected"

StatusStep ==
    pc # "get_availability" =>
        \A s \in DOMAIN stations : \A t \in DOMAIN stations' :
            StationId(stations[s]) = StationId(stations'[t]) =>
                \A c \in DOMAIN stations[s].channels :
                \A i \in DOMAIN stations[s].channels[c].intervals :
                    AllowedChange(pc,
                        stations[s].channels[c].intervals[i].status,
                        stations'[t].channels[c].intervals[i].status)

\* C10: while a client is processed, an interval's status changes only
\* NONE -> IGNORE | EXISTS | NEEDS_DOWNLOADING in prepare_mseed_download,
\* NEEDS_DOWNLOADING -> DOWNLOADED | DOWNLOAD_FAILED | DOWNLOAD_REJECTED in
\* QC and DOWNLOADED -> DOWNLOAD_REJECTED in sanitize_downloads.
C10_StatusTransitions == [][StatusStep]_vars

C10_Witness ==
    /\ pc = "sanitize_downloads"
    /\ \E s \in DOMAIN stations :
          /\ HasStatus(stations[s], "downloaded")
          /\ HasStatus(stations[s], "download_failed")
          /\ HasStatus(stations[s], "exists")

\* ------------------------------------------------------- the QC pass
\* _check_downloaded_data has returned its byte counts (download_mseed is
\* about to return), or an exception of its own ended it.
QCReturned == pc = "prepare_stationxml_download" /\ qc.stations # <<>>
QCRaised == pc = "raised" /\ qc.stations # <<>>

\* The interval at p and its file as QC found them.
Before(p) == IntervalAt(qc.stations, p)
FileBefore(p) ==
    IF Exists(qc.files, Before(p).filename)
    THEN Read(qc.files, Before(p).filename).content
    ELSE Content("zero", 0)
WasQueued(p) == Before(p).status = "needs_downloading"
HadFile(p) == Exists(qc.files, Before(p).filename)
QCPositions == Range(Positions(qc.stations))

RECURSIVE SumSizes(_)
\* The summed file sizes of a set of intervals.
SumSizes(ps) ==
    IF ps = {} THEN 0
    ELSE LET p == CHOOSE x \in ps : TRUE
         IN  FileBefore(p).size + SumSizes(ps \ {p})

\* A file that is non-empty, parses to at least one trace and is not
\* rejected for gaps.
PassedParsing(p) ==
    /\ WasQueued(p) /\ HadFile(p)
    /\ FileBefore(p).size > 0
    /\ FileBefore(p).readable
    /\ FileBefore(p).traces >= 1
    /\ ~ (restrictions.reject_channels_with_gaps /\ FileBefore(p).traces > 1)

\* duration < minimum_length * (interval.end - interval.start), with
\* minimum_length in percent.
TooShort(p) ==
    FileBefore(p).duration * 100
        < restrictions.minimum_length * (Before(p).end - Before(p).start)

\* C11: after a QC pass, a queued interval whose file passed parsing is
\* DOWNLOAD_REJECTED with its file deleted if and only if the file is too
\* short for minimum_length, and DOWNLOADED with its file kept otherwise;
\* downloaded_bytes is the summed size of the files kept.
C11_MinimumLengthDecides ==
    QCReturned =>
        /\ \A p \in QCPositions : PassedParsing(p) =>
              IF TooShort(p)
              THEN /\ IntervalAt(stations, p).status = "download_rejected"
                   /\ ~ Exists(files, Before(p).filename)
              ELSE /\ IntervalAt(stations, p).status = "downloaded"
                   /\ Exists(files, Before(p).filename)
        /\ qc.downloaded_bytes =
               SumSizes({p \in QCPositions :
                            PassedParsing(p) /\ ~ TooShort(p)})

\* C12: with reject_channels_with_gaps a queued interval whose file parses
\* to more than one trace is DOWNLOAD_REJECTED, its file deleted, and the QC
\* pass returns; without it (and without a minimum length) such a file is
\* DOWNLOADED.
C12_GapsRejected ==
    (QCReturned \/ QCRaised) =>
        \A p \in QCPositions :
            (/\ WasQueued(p) /\ HadFile(p)
             /\ FileBefore(p).readable /\ FileBefore(p).traces > 1)
            => IF restrictions.reject_channels_with_gaps
               THEN /\ QCReturned
                    /\ IntervalAt(stations, p).status = "download_rejected"
                    /\ ~ Exists(files, Before(p).filename)
               ELSE (QCReturned /\ restrictions.minimum_length = 0)
                        => IntervalAt(stations, p).status = "downloaded"

\* The four cases of DOWNLOAD_FAILED.
FailCase(p) ==
    /\ WasQueued(p)
    /\ \/ ~ HadFile(p)
       \/ FileBefore(p).size = 0
       \/ ~ FileBefore(p).readable
       \/ FileBefore(p).traces = 0

\* C13: QC sets a queued interval to DOWNLOAD_FAILED exactly when its file
\* is missing, has size zero, cannot be read or holds no trace; the file, if
\* any, is deleted; of these only unreadable and trace-less files count as
\* discarded bytes; intervals that were not queued keep status and file.
C13_DownloadFailedCases ==
    /\ (QCReturned \/ QCRaised) =>
          \A p \in QCPositions :
              /\ ~ WasQueued(p) =>
                    /\ IntervalAt(stations, p) = Before(p)
                    /\ Exists(files, Before(p).filename) <=> HadFile(p)
              /\ (WasQueued(p)
                  /\ IntervalAt(stations, p).status = "download_failed")
                    => FailCase(p) /\ ~ Exists(files, Before(p).filename)
    /\ QCReturned =>
          /\ \A p \in QCPositions : FailCase(p) =>
                IntervalAt(stations, p).status = "download_failed"
          /\ qc.discarded_bytes =
                SumSizes({p \in QCPositions : FailCase(p) /\ HadFile(p)})
                + SumSizes({p \in QCPositions :
                      IntervalAt(stations, p).status = "download_rejected"})

C13_Witness ==
    /\ QCReturned
    /\ qc.discarded_bytes > 0
    /\ \E p \in QCPositions : FailCase(p) /\ ~ HadFile(p)
    /\ \E p \in QCPositions : FailCase(p) /\ HadFile(p)
                                 /\ FileBefore(p).size = 0
    /\ \E p \in QCPositions : FailCase(p) /\ HadFile(p)
                                 /\ ~ FileBefore(p).readable
                                 /\ FileBefore(p).size > 0
    /\ \E p \in QCPositions : Before(p).status = "exists"

\* ------------------------------------------------- sanitize_downloads
MissesMetadata(sts, p) ==
    ChannelKey(sts[p[1]].channels[p[2]])
        \in Keys(sts[p[1]].miss_station_information)

SanitizeStep ==
    pc = "sanitize_downloads" =>
        \A p \in Range(Positions(stations)) :
            IF /\ IntervalAt(stations, p).status = "downloaded"
               /\ MissesMetadata(stations, p)
            THEN /\ IntervalAt(stations', p).status = "download_rejected"
                 /\ ~ Exists(files', IntervalAt(stations, p).filename)
            ELSE /\ IntervalAt(stations', p) = IntervalAt(stations, p)
                 /\ Exists(files', IntervalAt(stations, p).filename)
                        <=> Exists(files, IntervalAt(stations, p).filename)

\* C14: sanitize_downloads deletes the file of, and sets to
\* DOWNLOAD_REJECTED, every DOWNLOADED interval of a channel in
\* miss_station_information, and leaves every other interval (EXISTS ones,
\* and those of channels that miss nothing) and its file as they were.
C14_SanitizeFrame == [][SanitizeStep]_vars

\* ---------------------------------------------- prepare_mseed_download
\* prepare_mseed_download has just returned.
MseedPrepared == pc = "download_mseed"

PreparedStatus(p) ==
    LET interval == IntervalAt(stations, p)
        resolved == get_mseed_filename(mseed_storage,
                        stations[p[1]].network, stations[p[1]].station,
                        stations[p[1]].channels[p[2]].location,
                        stations[p[1]].channels[p[2]].channel,
                        interval.start, interval.end)
    IN  /\ interval.filename = resolved
        /\ interval.status \in {"ignore", "exists", "needs_downloading"}
        /\ interval.status = "ignore" <=> resolved = IgnoreSentinel
        /\ interval.status = "exists"
              <=> (resolved # IgnoreSentinel /\ Exists(files, resolved))
        /\ interval.status = "needs_downloading"
              => /\ dirname(resolved) \in dirs
                 /\ ~ Exists(files, resolved)

\* C15: after prepare_mseed_download every interval is IGNORE (the resolver
\* returned the ignore sentinel), EXISTS (the returned path is on disk) or
\* NEEDS_DOWNLOADING (otherwise, and then the directory of the path exists);
\* the call creates and deletes no waveform file.
C15_PreparedStatuses ==
    /\ [](MseedPrepared =>
             \A p \in Range(Positions(stations)) : PreparedStatus(p))
    /\ [][pc = "prepare_mseed_download" => files' = files]_vars

C15_Witness ==
    /\ MseedPrepared
    /\ \E s \in DOMAIN stations :
          /\ HasStatus(stations[s], "ignore")
          /\ HasStatus(stations[s], "exists")
          /\ HasStatus(stations[s], "needs_downloading")
          /\ StationId(stations[s]) \in dirs

\* ------------------------------------------ prepare_stationxml_download
\* prepare_stationxml_download has just returned.
StationxmlPrepared == pc = "download_stationxml"

\* The keys of the channels with a DOWNLOADED or EXISTS interval, each with
\* the channel's temporal bounds.
Wanted(st) ==
    { << <<st.channels[c].location, st.channels[c].channel>>,
         << MinOf({st.channels[c].intervals[i].start :
                      i \in DOMAIN st.channels[c].intervals}),
            MaxOf({st.channels[c].intervals[i].end :
                      i \in DOMAIN st.channels[c].intervals}) >> >> :
      c \in {k \in DOMAIN st.channels :
                \E i \in DOMAIN st.channels[k].intervals :
                    st.channels[k].intervals[i].status
                        \in {"downloaded", "exists"}} }

\* The station's metadata file holds rows for the key whose range
\* [min start, max end] contains the wanted range.
FileCovers(st, item) ==
    /\ \E f \in xmlfiles : f.path = st.stationxml_filename
    /\ LET rows == {row \in UNION {f.content : f \in
                        {g \in xmlfiles : g.path = st.stationxml_filename}} :
                       /\ row.network = st.network
                       /\ row.station = st.station
                       /\ row.location = item[1][1]
                       /\ row.channel = item[1][2]}
       IN  /\ rows # {}
           /\ \A row \in rows : \E first \in rows :
                 first.starttime <= row.starttime
                 /\ first.starttime <= item[2][1]
           /\ \A row \in rows : \E last \in rows :
                 last.endtime >= row.endtime /\ last.endtime >= item[2][2]

\* C16: after prepare_stationxml_download want is the keys of the channels
\* with a DOWNLOADED or EXISTS interval, mapped to their temporal bounds, and
\* either the file covers every wanted key and have = want, miss = {}, or
\* miss = want and have = {}.
C16_AllOrNothing ==
    StationxmlPrepared =>
        \A s \in DOMAIN stations :
            LET st == stations[s]
            IN  /\ st.want_station_information = Wanted(st)
                /\ IF \A item \in Wanted(st) : FileCovers(st, item)
                      /\ \E f \in xmlfiles : f.path = st.stationxml_filename
                   THEN /\ st.have_station_information = Wanted(st)
                        /\ st.miss_station_information = {}
                   ELSE /\ st.miss_station_information = Wanted(st)
                        /\ st.have_station_information = {}

\* One wanted key is covered by the file and another is not: everything is
\* missed.
C16_Witness ==
    /\ StationxmlPrepared
    /\ \E s \in DOMAIN stations :
          /\ Cardinality(stations[s].miss_station_information) = 2
          /\ stations[s].have_station_information = {}
          /\ \E item \in stations[s].want_station_information :
                FileCovers(stations[s], item)

\* -------------------------------------------------- download_stationxml
\* The rows of the file at the station's metadata path, in the files xfs,
\* about the key of item span the range item wants.
Covers(xfs, st, item) ==
    LET rows == {row \in UNION {f.content : f \in
                     {g \in xfs : g.path = st.stationxml_filename}} :
                    /\ row.network = st.network
                    /\ row.station = st.station
                    /\ row.location = item[1][1]
                    /\ row.channel = item[1][2]}
    IN  /\ rows # {}
        /\ \E first \in rows : first.starttime <= item[2][1]
        /\ \E last \in rows : last.endtime >= item[2][2]

\* The request for the station has completed in this step.
Completed(st) ==
    \E k \in DOMAIN arguments' :
        /\ arguments'[k].network = st.network
        /\ arguments'[k].station = st.station
        /\ arguments'[k].returned

MetadataStep ==
    pc = "download_stationxml" =>
        \A s \in DOMAIN stations :
            Completed(stations[s]) =>
                \A item \in stations[s].miss_station_information :
                    IF Covers(xmlfiles', stations[s], item)
                    THEN item \in stations'[s].have_station_information
                    ELSE item \in stations'[s].miss_station_information

\* C17: when a metadata request completes, every key that was missed is in
\* have_station_information afterwards if the written file covers its wanted
\* range, and still in miss_station_information otherwise, also when the
\* file holds no row for it.
C17_MissMovesToHave == [][MetadataStep]_vars


RequestsFor(args, st) ==
    {k \in DOMAIN args : /\ args[k].network = st.network
                          /\ args[k].station = st.station}

RequestStep ==
    pc = "download_stationxml" =>
        /\ \A s \in DOMAIN stations :
              /\ Cardinality(RequestsFor(arguments', stations[s])) =
                    IF stations[s].miss_station_information # {}
                    THEN 1 ELSE 0
              /\ \A k \in RequestsFor(arguments', stations[s]) :
                    /\ Len(arguments'[k].bulk) = Len(stations[s].channels)
                    /\ \A c \in DOMAIN stations[s].channels :
                          arguments'[k].bulk[c] =
                              << <<stations[s].channels[c].location,
                                   stations[s].channels[c].channel>>,
                                 Station_temporal_bounds(stations[s]) >>
              /\ ~ Completed(stations[s]) =>
                    /\ stations'[s] = stations[s]
                    /\ \A f \in xmlfiles' :
                          f.path = stations[s].stationxml_filename
                              => f \in xmlfiles
        /\ \A k \in DOMAIN arguments' : \E s \in DOMAIN stations :
              k \in RequestsFor(arguments', stations[s])
        /\ (\A s \in DOMAIN stations :
               stations[s].miss_station_information = {})
              => arguments' = <<>> /\ xmlfiles' = xmlfiles

\* C18: download_stationxml builds exactly one request, for all channels
\* over the station's temporal bounds, for each station that misses station
\* information and none for the others; a station without a request or with
\* a failed request keeps its station information and its file; with nothing
\* missed nothing is requested.
C18_OneRequestPerMissingStation == [][RequestStep]_vars

\* One of two stations missed nothing; the request for the other failed.
C18_Witness ==
    /\ pc = "sanitize_downloads"
    /\ Len(stations) = 2
    /\ Len(arguments) = 1
    /\ ~ arguments[1].returned
    /\ \E s \in DOMAIN stations :
          /\ RequestsFor(arguments, stations[s]) # {}
          /\ stations[s].miss_station_information # {}


\* ---------------------------------------------------- priority filters
\* get_availability has returned.
Available == pc = "available"

\* The (location, channel) keys of the offered channels that pass the
\* temporal filter, and those of the station get_availability kept.
Passed ==
    LET offered == IF arg.response.inventory = <<>> THEN <<>>
                   ELSE arg.response.inventory[1].channels
    IN  { <<offered[k].location_code, offered[k].code>> :
            k \in {n \in DOMAIN offered :
                      /\ offered[n].start_date <= arg.restrictions.starttime
                      /\ offered[n].end_date >= arg.restrictions.endtime} }
Survivors ==
    IF ret = <<>> THEN {}
    ELSE {ChannelKey(ret[1].channels[c]) : c \in DOMAIN ret[1].channels}

\* The keys of S whose component field (1: location, 2: channel) matches the
\* first pattern of priorities that matches any key of S.
FirstHit(S, field, priorities) ==
    LET hits == {i \in DOMAIN priorities :
                    \E k \in S : fnmatch(k[field], priorities[i])}
    IN  IF hits = {} THEN {}
        ELSE {k \in S : fnmatch(k[field], priorities[MinOf(hits)])}

AtLocation(S, l) == {k \in S : k[1] = l}

\* First match wins within each location group.
ChannelWinners(S, priorities) ==
    UNION {FirstHit(AtLocation(S, l), 2, priorities) : l \in {k[1] : k \in S}}

\* C19: the channel priority filter is applied only without a literal
\* channel filter and the location priority filter only without a literal
\* location filter; with a literal filter every channel that passed the
\* temporal filter survives for that dimension.
C19_LiteralSkipsPriorities ==
    Available =>
        LET r == arg.restrictions
            by_channel == IF r.channel = None
                          THEN ChannelWinners(Passed, r.channel_priorities[1])
                          ELSE Passed
        IN  Survivors = IF r.location = None
                        THEN FirstHit(by_channel, 1,
                                      r.location_priorities[1])
                        ELSE by_channel

\* C20: without literal filters, the surviving channels of a location group
\* are exactly those matching the first channel priority that matches a
\* channel of the group; a group no priority matches contributes nothing;
\* the location priorities then choose among the groups.
C20_FirstMatchWinsPerGroup ==
    (Available /\ arg.restrictions.channel = None
               /\ arg.restrictions.location = None) =>
        LET cp == arg.restrictions.channel_priorities[1]
            lp == arg.restrictions.location_priorities[1]
        IN  /\ \A l \in {k[1] : k \in Passed} :
                  AtLocation(Survivors, l)
                      \in {{}, FirstHit(AtLocation(Passed, l), 2, cp)}
            /\ Survivors = FirstHit(ChannelWinners(Passed, cp), 1, lp)

\* Offered HHZ, BHZ, LHZ with priorities HH*, BH*, LH*: only HHZ is kept.
C20_Witness ==
    /\ Available
    /\ arg.restrictions.channel = None
    /\ arg.restrictions.location = None
    /\ Len(arg.restrictions.channel_priorities[1]) = 3
    /\ Passed = {<<LocEmpty, HHZ>>, <<LocEmpty, BHZ>>, <<LocEmpty, LHZ>>}
    /\ Survivors = {<<LocEmpty, HHZ>>}

\* ---------------------------------------------------- location priority
\* The location code a priority entry without wildcards stands for.
CodeOf(entry) == [i \in DOMAIN entry |-> CHOOSE c \in entry[i].cs : TRUE]

\* The location codes of a set of (location, channel) keys.
Locations(S) == {k[1] : k \in S}

\* C21: without literal filters, an installed station has channels of
\* exactly one location code, the earliest entry of location_priorities
\* found among the channels left by the channel priority filter; when no
\* entry is found among them the station is not installed.
C21_OneLocationKept ==
    (Available /\ arg.restrictions.channel = None
               /\ arg.restrictions.location = None) =>
        LET lp == arg.restrictions.location_priorities[1]
            left == ChannelWinners(Passed,
                                   arg.restrictions.channel_priorities[1])
            found == {i \in DOMAIN lp : CodeOf(lp[i]) \in Locations(left)}
        IN  IF found = {} THEN ret = <<>>
            ELSE /\ Len(ret) = 1
                 /\ Locations(Survivors) = {CodeOf(lp[MinOf(found)])}

\* Channels at "00" and "10" are left, none at "": the station is installed
\* with the channels at "00", the second entry of the priorities.
C21_Witness ==
    /\ Available
    /\ arg.restrictions.channel = None
    /\ arg.restrictions.location = None
    /\ Locations(ChannelWinners(Passed,
                     arg.restrictions.channel_priorities[1])) = {Loc00, Loc10}
    /\ Locations(Survivors) = {Loc00}

\* ------------------------------------------------- invalid configuration
\* The configuration the specification calls valid: a non-empty time span
\* and a minimum_length (in percent) within [0, 100].
ValidConfiguration(r) ==
    /\ r.starttime < r.endtime
    /\ r.minimum_length \in 0..100

\* C22: no Restrictions with endtime <= starttime or minimum_length outside
\* [0, 1] reaches get_availability: the availability request of a provider
\* is only ever made for a valid configuration.
C22_InvalidConfigurationRejected ==
    Available => ValidConfiguration(arg.restrictions)

\* ------------------------------------------------- availability errors
\* C23: when client.get_stations raises an error whose text contains "no
\* data available", get_availability returns normally with no station; when
\* it raises any other error, get_availability does not return normally: an
\* exception reaches its caller.
C23_ErrorsDistinguished ==
    /\ (Available /\ arg.response.error = "no data available")
          => (ret = <<>> /\ exc = "")
    /\ (pc # "availability"
          /\ arg.response.error \notin {"", "no data available"})
          => (pc # "available" /\ exc # "")

\* ------------------------------------------------------ skipped providers
\* get_availability leaves the helper of the current client empty: the
\* request failed, or no station came out of it.
AvailabilityEmpty == pc = "get_availability" /\ stations' = <<>>

\* C24: when the availability request of a provider fails or yields no
\* station, download makes no waveform and no metadata request to that
\* provider and writes no file, raises nothing, and goes on with the next
\* provider of the list (or returns after the last one).
C24_EmptyProviderSkipped ==
    [][AvailabilityEmpty =>
          /\ requested' = requested
          /\ arguments' = arguments
          /\ files' = files /\ xmlfiles' = xmlfiles
          /\ exc' = "" /\ pc' # "raised"
          /\ cur' = cur + 1
          /\ pc' = IF cur < Len(clients) THEN "get_availability" ELSE "done"
      ]_vars

\* The first provider was skipped and the second one is downloading.
C24_Witness ==
    /\ Len(report) = 1
    /\ report[1].client = clients[1]
    /\ cur = 2
    /\ pc = "download_stationxml"
    /\ requested # {}
    /\ \A q \in requested : q.client = 2

\* --------------------------------------- DownloadHelper.__init__ on its own
\* Longest provider list tried.
MaxClients == 3

\* The names of the provider registry (URL_MAPPINGS), in sorted() order.
KnownNames == <<"BGR", "ETH", "IRIS", "ORFEUS">>

\* sorted(names)
Sorted(names) == SelectSeq(KnownNames, LAMBDA n : n \in names)

\* download_helpers.py:206-220: self.providers.  given is None or a list of
\* names; registry is the set of keys of URL_MAPPINGS.
Providers(given, registry) ==
    IF given = None
    THEN (IF "IRIS" \in registry THEN <<"IRIS">> ELSE <<>>)
         \o (IF "ORFEUS" \in registry THEN <<"ORFEUS">> ELSE <<>>)
         \o Sorted(registry \ {"IRIS", "ORFEUS"})
    ELSE given[1]

\* What Client(client_name) does: it raises, or gives a client with the
\* services the data centre runs.
Outcomes ==
    {[error |-> TRUE, services |-> {}],
     [error |-> FALSE, services |-> {"dataselect", "station"}],
     [error |-> FALSE, services |-> {"station", "event"}],
     [error |-> FALSE, services |-> {"dataselect", "available_event_catalogs"}]}

\* _i.startswith("available") for the keys of Client.services.
startswith_available(key) ==
    key \in {"available_event_catalogs", "available_event_contributors"}

\* A client kept although it lacks dataselect or station.
get_client_anyservice(client_name, outcome) ==
    IF outcome.error THEN None ELSE Some(client_name)

\* _get_client (download_helpers.py:332-349): None, or the client.
get_client(client_name, outcome) ==
    IF outcome.error THEN None
    ELSE LET services == {s \in outcome.services :
                             ~ startswith_available(s)}
         IN  IF "dataselect" \notin services \/ "station" \notin services
             THEN None
             ELSE Some(client_name)

\* download_helpers.py:362-367: the ordered dictionary written from the
\* pairs p.map returned (results[i] belongs to providers[i]).
initialized_clients(providers, results) ==
    LET clients_dict == {providers[i] :
                            i \in {k \in DOMAIN providers :
                                      results[k] # None}}
    IN  SelectSeq(providers, LAMBDA client : client \in clients_dict)

\* Provider lists without repeated names.
ProviderLists ==
    {l \in SeqsUpTo(Range(KnownNames), MaxClients) :
        \A i, j \in DOMAIN l : i # j => l[i] # l[j]}

InitClients ==
    /\ IdleRun
    /\ pc = "construct"
    /\ \E given \in {None} \cup {Some(l) : l \in ProviderLists} :
       \E registry \in {S \in SUBSET Range(KnownNames) :
                           /\ S # {}
                           /\ IF given = None
                              THEN Cardinality(S) <= MaxClients
                              ELSE S = Range(KnownNames)} :
       \E outcome \in [Range(Providers(given, registry)) -> Outcomes] :
          arg = [providers |-> given, registry |-> registry,
                 outcome |-> outcome]
    /\ ret = [providers |-> <<>>, results |-> <<>>, finished |-> <<>>]

\* download_helpers.py:205-224 and 354: self.providers, the empty
\* dictionary, and the thread pool with one thread per provider.
\* ThreadPool(0) raises ValueError.
Construct ==
    /\ pc = "construct"
    /\ LET providers == Providers(arg.providers, arg.registry)
       IN  /\ ret' = [providers |-> providers,
                      results |-> [i \in DOMAIN providers |-> <<"pending">>],
                      finished |-> <<>>]
           /\ IF providers = <<>>
              THEN pc' = "raised" /\ exc' = "ValueError"
              ELSE pc' = "initializing" /\ exc' = exc
    /\ UNCHANGED <<restrictions, mseed_storage, served, clients, cur,
                   stations, files, xmlfiles, existing_stations,
                   discarded_station_ids, report, requested, arg,
                   dirs, qc, arguments>>

\* One thread of the pool finishes _get_client for its provider.
GetClient ==
    /\ pc = "initializing"
    /\ \E i \in DOMAIN ret.providers :
          /\ ret.results[i] = <<"pending">>
          /\ ret' = [ret EXCEPT
                 !.results[i] = get_client(ret.providers[i],
                                           arg.outcome[ret.providers[i]]),
                 !.finished = Append(@, i)]
    /\ UNCHANGED <<restrictions, mseed_storage, served, clients, pc, cur,
                   stations, files, xmlfiles, existing_stations,
                   discarded_station_ids, report, requested, exc, arg,
                   dirs, qc, arguments>>

\* p.map has returned (download_helpers.py:357): the dictionary is written.
InitializeClients ==
    /\ pc = "initializing"
    /\ Len(ret.finished) = Len(ret.providers)
    /\ clients' = initialized_clients(ret.providers, ret.results)
    /\ pc' = "initialized"
    /\ UNCHANGED <<restrictions, mseed_storage, served, cur,
                   stations, files, xmlfiles, existing_stations,
                   discarded_station_ids, report, requested, exc, arg, ret,
                   dirs, qc, arguments>>

NextClients == Construct \/ GetClient \/ InitializeClients

SpecClients == InitClients /\ [][NextClients]_vars

\* The client of a provider initializes and has both services.
Usable(name) ==
    /\ ~ arg.outcome[name].error
    /\ {"dataselect", "station"} \subseteq arg.outcome[name].services

\* Position of a name in a list of distinct names.
IndexOf(l, name) == CHOOSE i \in DOMAIN l : l[i] = name

\* The order of the provider list when the caller gives none: the names of
\* the registry, IRIS first, ORFEUS next, the others alphabetically.
DefaultOrder(l) ==
    /\ Range(l) = arg.registry
    /\ Len(l) = Cardinality(arg.registry)
    /\ \A i, j \in DOMAIN l :
          i < j => /\ l[j] # "IRIS"
                   /\ l[j] = "ORFEUS" => l[i] = "IRIS"
                   /\ l[i] \notin {"IRIS", "ORFEUS"}
                         => IndexOf(KnownNames, l[i])
                                < IndexOf(KnownNames, l[j])

\* C25: once the helper is constructed, the initialized clients are the
\* providers whose client initialized with both the station and the
\* dataselect service, in the order of the provider list, whatever the
\* order in which the initializations finished; without a list from the
\* caller, the provider list is IRIS, ORFEUS, then the other registry names
\* alphabetically.
C25_ClientsInConfiguredOrder ==
    pc = "initialized" =>
        /\ IF arg.providers = None THEN DefaultOrder(ret.providers)
           ELSE ret.providers = arg.providers[1]
        /\ clients = SelectSeq(ret.providers, Usable)

\* Default list IRIS, ORFEUS, BGR; BGR finished first and ORFEUS is not
\* usable: the clients are IRIS, BGR.
C25_Witness ==
    /\ pc = "initialized"
    /\ arg.providers = None
    /\ ret.providers = <<"IRIS", "ORFEUS", "BGR">>
    /\ ret.finished = <<3, 1, 2>>
    /\ clients = <<"IRIS", "BGR">>

\* ------------------------------------------------------- existing files
\* C26: an interval has status EXISTS only while the file at its filename
\* is readable and parseable as a waveform file; an empty or unparseable
\* file found on disk does not make an interval EXISTS, and so does not make
\* its channel want station information.
C26_ExistsAreParseable ==
    \A p \in Range(Positions(stations)) :
        IntervalAt(stations, p).status = "exists"
            => Parseable(files, stations, p)

\* ---------------------------------------------------------- phase order
\* The phases of one iteration of the client loop, in the order of
\* download_helpers.py:267-321 (waveform pool and QC are both inside
\* download_mseed).
Phases == <<"get_availability", "discard_stations", "prepare_mseed_download",
            "download_mseed", "prepare_stationxml_download",
            "download_stationxml", "sanitize_downloads">>

\* A step of the current phase: it raises, or the next phase of the same
\* client follows, or (after an empty availability, an empty discard, or
\* sanitize_downloads) the iteration ends.
PhaseStep ==
    LET k == IndexOf(Phases, pc)
    IN  \/ pc' = "raised" /\ cur' = cur
        \/ k < Len(Phases) /\ pc' = Phases[k + 1] /\ cur' = cur
        \/ /\ k \in {1, 2, Len(Phases)}
           /\ cur' = cur + 1
           /\ pc' = IF cur < Len(clients) THEN "get_availability" ELSE "done"

\* C27: within one provider the phases follow one another in the order
\* get_availability, discard_stations, prepare_mseed_download, waveform
\* download with QC, prepare_stationxml_download, metadata download,
\* sanitize_downloads, each starting when the one before has finished:
\* waveform requests and waveform files written belong to the download_mseed
\* step alone, metadata requests and files to the download_stationxml step
\* alone, so nothing of a pool is left running in a later phase.
C27_PhasesInOrder ==
    [][/\ PhaseStep
       /\ pc # "download_mseed" => requested' = requested
       /\ pc \notin {"download_mseed", "sanitize_downloads"}
             => files' = files
       /\ pc # "download_stationxml"
             => (xmlfiles' = xmlfiles /\ arguments' = arguments)
       /\ pc = "download_mseed" =>
             \A f \in files' \ files :
                 \E p \in NeedsDownloading(stations) :
                     f.path = IntervalAt(stations, p).filename
      ]_vars

\* Every phase has run: waveforms were requested and kept, metadata was
\* requested and written, and sanitize_downloads is about to start.
C27_Witness ==
    /\ pc = "sanitize_downloads"
    /\ requested # {}
    /\ files # {}
    /\ arguments # <<>>
    /\ xmlfiles # {}
    /\ \E s \in DOMAIN stations : HasStatus(stations[s], "downloaded")

\* ------------------------------------------------ classified intervals
\* download_mseed has returned to download() for the current helper.
MseedReturned ==
    pc \in {"prepare_stationxml_download", "download_stationxml",
            "sanitize_downloads"}

\* C28: once download_mseed has returned, with or without chunks and
\* whatever the requests delivered, no interval of the helper has status
\* NEEDS_DOWNLOADING or NONE; the metadata phases never see an unclassified
\* interval.
C28_AllClassifiedAfterMseed ==
    MseedReturned =>
        \A p \in Range(Positions(stations)) :
            IntervalAt(stations, p).status
                \notin {"needs_downloading", "none"}

\* download_mseed has just returned; of the intervals it queued one was not
\* delivered and another one was kept.
C28_Witness ==
    /\ pc = "prepare_stationxml_download"
    /\ \E p, o \in NeedsDownloading(qc.stations) :
          /\ IntervalAt(stations, p).status = "download_failed"
          /\ ~ Exists(qc.files, IntervalAt(stations, p).filename)
          /\ IntervalAt(stations, o).status = "downloaded"

\* ------------------------------------- chunk packing of download_mseed
\* Most intervals per channel tried.
MaxIntervals == 2

\* str.upper() on the letters that occur as band codes here.
upper(c) ==
    CASE c = "h" -> "H" [] c = "b" -> "B" [] c = "l" -> "L" [] OTHER -> c

\* channel_sampling_rate[band_code], with the generic 1.0 of the KeyError
\* branch (download_status.py:500-504, 519-523); the bands with a rate
\* below 1 Hz are left out.
channel_sampling_rate(band_code) ==
    CASE band_code \in {"F", "G", "A", "O"} -> 5000
      [] band_code \in {"D", "C"} -> 1000
      [] band_code \in {"E", "H"} -> 250
      [] band_code \in {"S", "B"} -> 80
      [] band_code = "M" -> 10
      [] band_code = "L" -> 1
      [] OTHER -> 1

\* The tuple appended to chunks_curr (download_status.py:531-533).
ChunkItem(sta, cha, interval) ==
    [network |-> sta.network, station |-> sta.station,
     location |-> cha.location, channel |-> cha.channel,
     start |-> interval.start, end |-> interval.end,
     filename |-> interval.filename]

\* sr * duration * 4.0 / 3.0 bytes (download_status.py:537-539), counted in
\* thirds of a byte to stay within the integers.
EstimateThirds(cha, interval) ==
    channel_sampling_rate(upper(cha.channel[1]))
        * (interval.end - interval.start) * 4

\* chunk_size_in_mb in thirds of a byte (the two divisions by 1024.0 of
\* line 539 taken to the other side of the comparison).
TargetThirds(chunk_size_in_mb) == chunk_size_in_mb * 1024 * 1024 * 3

\* The packing that keeps the running size after closing a chunk.
Pack_noreset(st, item, thirds, target) ==
    IF st.curr + thirds >= target
    THEN [chunks |-> Append(st.chunks, Append(st.chunks_curr, item)),
          chunks_curr |-> <<>>, curr |-> st.curr + thirds]
    ELSE [chunks |-> st.chunks,
          chunks_curr |-> Append(st.chunks_curr, item),
          curr |-> st.curr + thirds]

\* download_status.py:531-544 for one NEEDS_DOWNLOADING interval: st holds
\* chunks, chunks_curr and the running size.
Pack(st, item, thirds, target) ==
    IF st.curr + thirds >= target
    THEN [chunks |-> Append(st.chunks, Append(st.chunks_curr, item)),
          chunks_curr |-> <<>>, curr |-> 0]
    ELSE [chunks |-> st.chunks,
          chunks_curr |-> Append(st.chunks_curr, item),
          curr |-> st.curr + thirds]

\* The chunks without the unfinished last one.
Flush_dropped(st) == st.chunks

\* download_status.py:545-546: "if chunks_curr: chunks.append(chunks_curr)".
Flush(st) ==
    IF st.chunks_curr # <<>> THEN Append(st.chunks, st.chunks_curr)
    ELSE st.chunks

RECURSIVE PackLoop(_, _, _, _)
\* The three nested loops of download_status.py:514-544 over the intervals
\* at the positions ps.
PackLoop(sts, ps, st, target) ==
    IF ps = <<>> THEN st
    ELSE LET p == Head(ps)
             cha == sts[p[1]].channels[p[2]]
             interval == IntervalAt(sts, p)
         IN  IF interval.status # "needs_downloading"
             THEN PackLoop(sts, Tail(ps), st, target)
             ELSE PackLoop(sts, Tail(ps),
                           Pack(st, ChunkItem(sts[p[1]], cha, interval),
                                EstimateThirds(cha, interval), target),
                           target)

\* The chunks download_mseed builds (download_status.py:506-546).
Chunks(sts, chunk_size_in_mb) ==
    Flush(PackLoop(sts, Positions(sts),
                   [chunks |-> <<>>, chunks_curr |-> <<>>, curr |-> 0],
                   TargetThirds(chunk_size_in_mb)))

\* An interval of one hour as prepare_mseed_download leaves it.
PreparedInterval(network, station, channel, k, status) ==
    [TimeInterval((k - 1) * 3600, k * 3600) EXCEPT
        !.status = status,
        !.filename =
            IF status = "ignore" THEN IgnoreSentinel
            ELSE get_mseed_filename("template", network, station, LocEmpty,
                                    channel, (k - 1) * 3600, k * 3600)]

\* Station BW.A with a 250 Hz channel and a channel of an unlisted band,
\* station BW.B with an 80 Hz channel whose code came in lower case.
PreparedStations(n, status) ==
    << Station("BW", "A", 0, 0,
           << Channel(LocEmpty, HHZ,
                  [k \in 1..n |->
                      PreparedInterval("BW", "A", HHZ, k, status[1][k])]),
              Channel(LocEmpty, <<"X", "H", "Z">>,
                  [k \in 1..n |->
                      PreparedInterval("BW", "A", <<"X", "H", "Z">>, k,
                                       status[2][k])]) >>),
       Station("BW", "B", 0, 1,
           << Channel(LocEmpty, <<"b", "H", "Z">>,
                  [k \in 1..n |->
                      PreparedInterval("BW", "B", <<"b", "H", "Z">>, k,
                                       status[3][k])]) >>) >>

InitChunks ==
    /\ IdleRun
    /\ pc = "chunking"
    /\ \E n \in 1..MaxIntervals :
       \E status \in [1..3 -> [1..n -> {"ignore", "exists",
                                        "needs_downloading"}]] :
       \E chunk_size_in_mb \in {1, 2, 50} :
          arg = [stations |-> PreparedStations(n, status),
                 chunk_size_in_mb |-> chunk_size_in_mb]
    /\ ret = <<>>

\* The chunk building of helper.download_mseed(chunk_size_in_mb=...).
BuildChunks ==
    /\ pc = "chunking"
    /\ ret' = Chunks(arg.stations, arg.chunk_size_in_mb)
    /\ pc' = "chunked"
    /\ UNCHANGED <<restrictions, mseed_storage, served, clients, cur,
                   stations, files, xmlfiles, existing_stations,
                   discarded_station_ids, report, requested, exc, arg,
                   dirs, qc, arguments>>

SpecChunks == InitChunks /\ [][BuildChunks]_vars

\* The chunks have been built.
Chunked == pc = "chunked"

\* A chunk entry is the interval at position p.
IsInterval(item, sts, p) ==
    /\ item.network = sts[p[1]].network
    /\ item.station = sts[p[1]].station
    /\ item.location = sts[p[1]].channels[p[2]].location
    /\ item.channel = sts[p[1]].channels[p[2]].channel
    /\ item.start = IntervalAt(sts, p).start
    /\ item.end = IntervalAt(sts, p).end
    /\ item.filename = IntervalAt(sts, p).filename

\* C29: the chunks partition the NEEDS_DOWNLOADING intervals: each of them
\* is in exactly one chunk, every chunk entry is such an interval (none
\* with status EXISTS or IGNORE), no chunk is empty, and no filename occurs
\* twice.
C29_ChunksPartitionNeeded ==
    Chunked =>
        LET all == Concat(ret)
            needed == NeedsDownloading(arg.stations)
        IN  /\ \A p \in needed :
                  Cardinality({k \in DOMAIN all :
                                  IsInterval(all[k], arg.stations, p)}) = 1
            /\ \A k \in DOMAIN all :
                  \E p \in needed : IsInterval(all[k], arg.stations, p)
            /\ \A c \in DOMAIN ret : ret[c] # <<>>
            /\ \A j, k \in DOMAIN all :
                  j # k => all[j].filename # all[k].filename

\* Several chunks, the last one unfinished, with intervals of status EXISTS
\* and IGNORE left out.
C29_Witness ==
    /\ Chunked
    /\ Len(ret) = 3
    /\ Len(ret[3]) = 2
    /\ \E p, o \in Range(Positions(arg.stations)) :
          /\ IntervalAt(arg.stations, p).status = "exists"
          /\ IntervalAt(arg.stations, o).status = "ignore"

\* rate(band code) x duration x 4 / 3 bytes, in thirds of a byte, summed
\* over a chunk; the rates are those of the band code table (H 250, B 80,
\* others here 1).
RECURSIVE ChunkThirds(_)
ChunkThirds(chunk) ==
    IF chunk = <<>> THEN 0
    ELSE (CASE upper(Head(chunk).channel[1]) = "H" -> 250
            [] upper(Head(chunk).channel[1]) = "B" -> 80
            [] OTHER -> 1)
             * (Head(chunk).end - Head(chunk).start) * 4
         + ChunkThirds(Tail(chunk))

MaxThreads == 3
MaxPoolChunks == 3
\* Most metadata requests tried; above the default of download_stationxml.
MaxRequests == 11

\* A pool with as many workers as there are tasks.
PoolSize_pertask(threads, tasks) == tasks

\* ThreadPool(min(threads, len(tasks))) (download_status.py:446 and 576).
PoolSize(threads, tasks) == Min(threads, tasks)

\* download_stationxml(self, threads=10), called without arguments at
\* download_helpers.py:317.
DefaultMetadataThreads == 10

\* A pool before pool.map: every task queued, no worker busy.
NewPool(tasks) == [queued |-> tasks, in_flight |-> 0, finished |-> 0]

InitPools ==
    /\ IdleRun
    /\ pc = "waveform_pool"
    /\ \E threads_per_client \in 1..MaxThreads :
       \E chunks \in 0..MaxPoolChunks :
       \E requests \in 0..MaxRequests :
          /\ arg = [threads_per_client |-> threads_per_client,
                    chunks |-> chunks, requests |-> requests]
          /\ ret = [waveform |-> NewPool(chunks), metadata |-> NewPool(0)]

\* An idle worker of the given pool takes the next task: its request is
\* sent.
TakeTask(pool, size) ==
    /\ pool.queued > 0
    /\ pool.in_flight < size

Taken(pool) ==
    [pool EXCEPT !.queued = @ - 1, !.in_flight = @ + 1]

\* The request of a worker returns or raises; the worker is idle again.
Returned(pool) ==
    [pool EXCEPT !.in_flight = @ - 1, !.finished = @ + 1]

\* star_download_mseed starts in a worker of the waveform pool.
WaveformStart ==
    /\ pc = "waveform_pool"
    /\ TakeTask(ret.waveform, PoolSize(arg.threads_per_client, arg.chunks))
    /\ ret' = [ret EXCEPT !.waveform = Taken(@)]
    /\ UNCHANGED <<restrictions, mseed_storage, served, clients, pc, cur,
                   stations, files, xmlfiles, existing_stations,
                   discarded_station_ids, report, requested, exc, arg,
                   dirs, qc, arguments>>

WaveformReturn ==
    /\ pc = "waveform_pool"
    /\ ret.waveform.in_flight > 0
    /\ ret' = [ret EXCEPT !.waveform = Returned(@)]
    /\ UNCHANGED <<restrictions, mseed_storage, served, clients, pc, cur,
                   stations, files, xmlfiles, existing_stations,
                   discarded_station_ids, report, requested, exc, arg,
                   dirs, qc, arguments>>

\* pool.map of download_mseed returns (or there was no chunk, line 554);
\* QC, prepare_stationxml_download, and the arguments of download_stationxml.
WaveformJoin ==
    /\ pc = "waveform_pool"
    /\ ret.waveform.finished = arg.chunks
    /\ pc' = "metadata_pool"
    /\ ret' = [ret EXCEPT !.metadata = NewPool(arg.requests)]
    /\ UNCHANGED <<restrictions, mseed_storage, served, clients, cur,
                   stations, files, xmlfiles, existing_stations,
                   discarded_station_ids, report, requested, exc, arg,
                   dirs, qc, arguments>>

\* star_download_station starts in a worker of the metadata pool.
MetadataStart ==
    /\ pc = "metadata_pool"
    /\ TakeTask(ret.metadata, PoolSize(DefaultMetadataThreads, arg.requests))
    /\ ret' = [ret EXCEPT !.metadata = Taken(@)]
    /\ UNCHANGED <<restrictions, mseed_storage, served, clients, pc, cur,
                   stations, files, xmlfiles, existing_stations,
                   discarded_station_ids, report, requested, exc, arg,
                   dirs, qc, arguments>>

MetadataReturn ==
    /\ pc = "metadata_pool"
    /\ ret.metadata.in_flight > 0
    /\ ret' = [ret EXCEPT !.metadata = Returned(@)]
    /\ UNCHANGED <<restrictions, mseed_storage, served, clients, pc, cur,
                   stations, files, xmlfiles, existing_stations,
                   discarded_station_ids, report, requested, exc, arg,
                   dirs, qc, arguments>>

\* pool.map of download_stationxml returns (or there was no request, line
\* 440).
MetadataJoin ==
    /\ pc = "metadata_pool"
    /\ ret.metadata.finished = arg.requests
    /\ pc' = "pools_done"
    /\ UNCHANGED <<restrictions, mseed_storage, served, clients, cur,
                   stations, files, xmlfiles, existing_stations,
                   discarded_station_ids, report, requested, exc, arg, ret,
                   dirs, qc, arguments>>

NextPools ==
    \/ WaveformStart
    \/ WaveformReturn
    \/ WaveformJoin
    \/ MetadataStart
    \/ MetadataReturn
    \/ MetadataJoin

SpecPools == InitPools /\ [][NextPools]_vars

\* C31: during the waveform phase at most min(threads_per_client, number
\* of chunks) bulk requests are in flight; during the metadata phase at
\* most min(10, number of requests) metadata requests are, whatever
\* threads_per_client is; requests of the two kinds are never in flight
\* together.
C31_PoolsBoundRequests ==
    /\ ret.waveform.in_flight <= arg.threads_per_client
    /\ ret.waveform.in_flight <= arg.chunks
    /\ ret.metadata.in_flight <= 10
    /\ ret.metadata.in_flight <= arg.requests
    /\ ~ (ret.waveform.in_flight > 0 /\ ret.metadata.in_flight > 0)
    /\ pc = "waveform_pool" => ret.metadata.in_flight = 0
    /\ pc = "metadata_pool" => ret.waveform.in_flight = 0

\* Eleven metadata requests with one thread per client: ten requests are
\* in flight and one waits.
C31_Witness ==
    /\ pc = "metadata_pool"
    /\ arg.threads_per_client = 1
    /\ arg.chunks = 3
    /\ ret.waveform.finished = 3
    /\ ret.metadata.in_flight = 10
    /\ ret.metadata.queued = 1

\* ---------------------------------------- failing bulk waveform requests
\* The positions of the intervals of a chunk.
PositionsOf(sts, chunk) ==
    {p \in Range(Positions(sts)) :
        \E k \in DOMAIN chunk :
            chunk[k].filename = IntervalAt(sts, p).filename}

\* What star_download_mseed (download_status.py:557-574) does with the
\* answer to the request of one chunk: "" when the request returned, else
\* the text of the utils.ERRORS exception it raised.
BulkAnswers == {"", "no data available", "timeout"}

\* The level star_download_mseed logs an error text at (lines 569-572).
LogLevel(msg) == IF msg = "no data available" THEN "info" ELSE "error"

InitBulk ==
    /\ restrictions = Restrictions(0, MaxIntervals * 3600, Some(3600),
                                   FALSE, 0)
    /\ mseed_storage = "template"
    /\ served = [waveform |-> {}, stationxml |-> {}, responses |-> {}]
    /\ clients = <<"IRIS">>
    /\ cur = 1
    /\ stations = PreparedStations(MaxIntervals,
                      [c \in 1..3 |->
                          [k \in 1..MaxIntervals |-> "needs_downloading"]])
    /\ files = {}
    /\ xmlfiles = {}
    /\ existing_stations = {}
    /\ discarded_station_ids = {}
    /\ report = <<>>
    /\ requested = {}
    /\ exc = ""
    /\ dirs = {}
    /\ qc = NoQC
    /\ arguments = <<>>
    /\ pc = "bulk"
    /\ \E chunk_size_in_mb \in {1, 2} :
       \E delivered \in [NeedsDownloading(stations) -> {"missing", "full"}] :
       \E answer \in [DOMAIN Chunks(stations, chunk_size_in_mb)
                         -> BulkAnswers] :
          arg = [chunks |-> Chunks(stations, chunk_size_in_mb),
                 delivered |-> delivered, answer |-> answer]
    /\ ret = [ran |-> {}, log |-> <<>>]

\* A worker whose exception is not caught: pool.map raises it in download().
RunChunk_uncaught ==
    /\ pc = "bulk"
    /\ \E c \in DOMAIN arg.chunks \ ret.ran :
          /\ ret' = [ret EXCEPT !.ran = @ \cup {c}]
          /\ IF arg.answer[c] = ""
             THEN /\ files' = AfterBulk(files, stations,
                        [p \in PositionsOf(stations, arg.chunks[c]) |->
                            arg.delivered[p]])
                  /\ pc' = pc /\ exc' = exc
             ELSE /\ files' = files
                  /\ pc' = "raised" /\ exc' = "FDSNException"
    /\ UNCHANGED <<restrictions, mseed_storage, served, clients, cur,
                   stations, xmlfiles, existing_stations,
                   discarded_station_ids, report, requested, arg,
                   dirs, qc, arguments>>

\* One call of star_download_mseed in the pool (download_status.py:557-580),
\* the chunks being run in any order: the files of the chunk are written
\* when the request returns; when it raises, the text is logged and nothing
\* is written.
RunChunk ==
    /\ pc = "bulk"
    /\ \E c \in DOMAIN arg.chunks \ ret.ran :
          /\ ret' = [ran |-> ret.ran \cup {c},
                     log |-> IF arg.answer[c] = "" THEN ret.log
                             ELSE Append(ret.log,
                                      [chunk |-> c,
                                       level |-> LogLevel(arg.answer[c])])]
          /\ files' = IF arg.answer[c] = ""
                      THEN AfterBulk(files, stations,
                               [p \in PositionsOf(stations, arg.chunks[c])
                                   |-> arg.delivered[p]])
                      ELSE files
    /\ UNCHANGED <<restrictions, mseed_storage, served, clients, pc, cur,
                   stations, xmlfiles, existing_stations,
                   discarded_station_ids, report, requested, exc, arg,
                   dirs, qc, arguments>>

\* pool.map has returned: _check_downloaded_data (download_status.py:586).
CheckBulk ==
    /\ pc = "bulk"
    /\ ret.ran = DOMAIN arg.chunks
    /\ LET q == check_downloaded_data(stations, files, restrictions)
       IN  /\ stations' = q.stations
           /\ files' = q.files
           /\ exc' = q.exc
           /\ pc' = IF q.exc # "" THEN "raised" ELSE "checked"
    /\ UNCHANGED <<restrictions, mseed_storage, served, clients, cur,
                   xmlfiles, existing_stations, discarded_station_ids,
                   report, requested, arg, ret, dirs, qc, arguments>>

NextBulk == RunChunk \/ CheckBulk

SpecBulk == InitBulk /\ [][NextBulk]_vars

\* The stations as QC leaves them when every request returns.
AllAnswered ==
    check_downloaded_data(
        PreparedStations(MaxIntervals,
            [c \in 1..3 |-> [k \in 1..MaxIntervals |-> "needs_downloading"]]),
        AfterBulk({}, PreparedStations(MaxIntervals,
            [c \in 1..3 |-> [k \in 1..MaxIntervals |-> "needs_downloading"]]),
            arg.delivered),
        restrictions).stations

\* C32: a bulk request that raises affects its own chunk only, in whatever
\* order the workers run: nothing is raised to download_mseed, every chunk
\* is run, the intervals of a chunk whose request raised end QC as
\* DOWNLOAD_FAILED, and every interval of a chunk whose request returned
\* ends with the status it has when no request raises.  "no data available"
\* is logged as info, any other error as error.
C32_FailureStaysInChunk ==
    /\ pc # "raised"
    /\ pc = "checked" =>
          /\ ret.ran = DOMAIN arg.chunks
          /\ \A c \in DOMAIN arg.chunks :
             \A p \in PositionsOf(stations, arg.chunks[c]) :
                IntervalAt(stations, p).status =
                    IF arg.answer[c] # "" THEN "download_failed"
                    ELSE IntervalAt(AllAnswered, p).status
          /\ \A c \in DOMAIN arg.chunks :
                /\ arg.answer[c] = "no data available"
                      <=> \E k \in DOMAIN ret.log :
                             ret.log[k] = [chunk |-> c, level |-> "info"]
                /\ arg.answer[c] = "timeout"
                      <=> \E k \in DOMAIN ret.log :
                             ret.log[k] = [chunk |-> c, level |-> "error"]

\* Three chunks: the first answered "timeout" and ran last, the second
\* "no data available", the third was delivered.
C32_Witness ==
    /\ pc = "checked"
    /\ Len(arg.chunks) = 3
    /\ arg.answer = <<"timeout", "no data available", "">>
    /\ ret.log[2].chunk = 1
    /\ \E p \in PositionsOf(stations, arg.chunks[3]) :
          IntervalAt(stations, p).status = "downloaded"
    /\ \A p \in PositionsOf(stations, arg.chunks[1]) :
          /\ arg.delivered[p] = "full"
          /\ IntervalAt(stations, p).status = "download_failed"

\* ------------------------------------------- discard_stations on its own
\* The station codes of the helper's map and of the ids tried.
DiscardCodes == <<"A", "B", "C", "D">>

\* A station as get_availability installs it, with as many channels as its
\* place in DiscardCodes.
DiscardStation(k) ==
    Station("BW", DiscardCodes[k], 0, k,
            [c \in 1..k |-> Channel(SortedLocations[1 + (c % 3)], HHZ,
                                    << TimeInterval(0, EndTime) >>)])

InitDiscard ==
    /\ IdleRun
    /\ pc = "discard"
    /\ \E present \in SUBSET (1..3) :
       \E ids \in SUBSET {<<"BW", DiscardCodes[k]>> :
                             k \in DOMAIN DiscardCodes} :
          arg = [stations |-> SelectSeq([k \in 1..3 |-> DiscardStation(k)],
                                  LAMBDA st : \E k \in present :
                                                 st = DiscardStation(k)),
                 station_ids |-> ids]
    /\ ret = <<>>

\* helper.discard_stations(station_ids)
Discard ==
    /\ pc = "discard"
    /\ ret' = << discard_stations(arg.stations, arg.station_ids) >>
    /\ pc' = "discarded"
    /\ UNCHANGED <<restrictions, mseed_storage, served, clients, cur,
                   stations, files, xmlfiles, existing_stations,
                   discarded_station_ids, report, requested, exc, arg,
                   dirs, qc, arguments>>

\* helper.discard_stations(station_ids) once more.
DiscardAgain ==
    /\ pc = "discarded"
    /\ ret' = Append(ret, discard_stations(ret[1], arg.station_ids))
    /\ pc' = "discarded_twice"
    /\ UNCHANGED <<restrictions, mseed_storage, served, clients, cur,
                   stations, files, xmlfiles, existing_stations,
                   discarded_station_ids, report, requested, exc, arg,
                   dirs, qc, arguments>>

NextDiscard == Discard \/ DiscardAgain

SpecDiscard == InitDiscard /\ [][NextDiscard]_vars

\* C33: discard_stations(ids) removes exactly the keys that are in ids and
\* leaves every other station, with its channels and intervals, as it was
\* and in place; ids that are not keys are ignored without error; a second
\* call with the same ids changes nothing.
C33_DiscardExactly ==
    /\ pc \in {"discarded", "discarded_twice"} =>
          /\ exc = ""
          /\ {StationId(ret[1][k]) : k \in DOMAIN ret[1]}
                = {StationId(arg.stations[k]) : k \in DOMAIN arg.stations}
                      \ arg.station_ids
          /\ \A k \in DOMAIN ret[1] :
                \E n \in DOMAIN arg.stations : ret[1][k] = arg.stations[n]
          /\ \A j, k \in DOMAIN ret[1] :
                j < k => \E m, n \in DOMAIN arg.stations :
                            /\ m < n
                            /\ ret[1][j] = arg.stations[m]
                            /\ ret[1][k] = arg.stations[n]
    /\ pc = "discarded_twice" => ret[2] = ret[1]

\* Stations A, B, C with ids B, C and D: A is left, D was not there.
C33_Witness ==
    /\ pc = "discarded_twice"
    /\ Len(arg.stations) = 3
    /\ arg.station_ids = {<<"BW", "B">>, <<"BW", "C">>, <<"BW", "D">>}
    /\ ret[2] = << arg.stations[1] >>

\* ------------------------------------- intervals and temporal containment
\* What a data centre may report for a channel of station BW.A: an
\* operating interval that covers the time span, starts late or ends
\* early, and no availability, one that covers the time span, or a
\* shorter one.
ReportedChannels(r) ==
    {[location_code |-> LocEmpty, code |-> c,
      start_date |-> s, end_date |-> e, data_availability |-> da] :
        c \in {HHZ, HHN},
        s \in {r.starttime, r.starttime + 1},
        e \in {r.endtime - 1, r.endtime},
        da \in {None, Some([start |-> r.starttime, end |-> r.endtime]),
                Some([start |-> r.starttime, end |-> r.endtime - 1])}}

InitTemporal ==
    /\ IdleRun
    /\ pc = "availability"
    /\ \E r \in {Restrictions(0, EndTime, c, TRUE, 0) :
                    c \in {None, Some(ChunkLen)}} :
       \E chs \in SeqsUpTo(ReportedChannels(r), 2) :
       \E includeavailability \in BOOLEAN :
          arg = [restrictions |-> r,
                 response |-> Inventory(<<RawStation("BW", "A", 0, chs)>>),
                 includeavailability |-> includeavailability]
    /\ ret = <<>>

\* helper.get_availability() of a client with or without the
\* includeavailability capability.
AvailabilityWith ==
    /\ pc = "availability"
    /\ ret' = get_availability_with(arg.response, arg.restrictions,
                                    arg.includeavailability)
    /\ pc' = "available"
    /\ UNCHANGED <<restrictions, mseed_storage, served, clients, cur,
                   stations, files, xmlfiles, existing_stations,
                   discarded_station_ids, report, requested, exc, arg,
                   dirs, qc, arguments>>

SpecTemporal == InitTemporal /\ [][AvailabilityWith]_vars

\* A reported channel covers the requested time span, by its operating
\* interval and, when availability was requested, by its availability.
CoversTimeSpan(ch) ==
    /\ ch.start_date <= arg.restrictions.starttime
    /\ ch.end_date >= arg.restrictions.endtime
    /\ arg.includeavailability =>
          /\ ch.data_availability # None
          /\ ch.data_availability[1].start <= arg.restrictions.starttime
          /\ ch.data_availability[1].end >= arg.restrictions.endtime

\* C34: after get_availability every channel of every installed station
\* has one TimeInterval per pair of the Restrictions iteration, in order,
\* with the pair's start and end, status NONE and no filename; and it was
\* reported with an operating interval (and, with includeavailability, an
\* availability) covering the whole time span.
C34_IntervalsAndContainment ==
    Available =>
        \A s \in DOMAIN ret : \A c \in DOMAIN ret[s].channels :
            LET ch == ret[s].channels[c]
                pairs == Restrictions_iter(arg.restrictions)
                reported == arg.response.inventory[1].channels
            IN  /\ Len(ch.intervals) = Len(pairs)
                /\ \A k \in DOMAIN pairs :
                      ch.intervals[k] =
                          [start |-> pairs[k][1], end |-> pairs[k][2],
                           filename |-> NoFilename, status |-> "none"]
                /\ \E n \in DOMAIN reported :
                      /\ reported[n].location_code = ch.location
                      /\ reported[n].code = ch.channel
                      /\ CoversTimeSpan(reported[n])

\* Availability was requested; HHZ has none reported and is dropped, HHN
\* is installed with the two intervals of the chunked time span.
C34_Witness ==
    /\ Available
    /\ arg.includeavailability
    /\ Len(arg.response.inventory[1].channels) = 2
    /\ arg.response.inventory[1].channels[1].code = HHZ
    /\ arg.response.inventory[1].channels[1].data_availability = None
    /\ arg.response.inventory[1].channels[1].end_date
          = arg.restrictions.endtime
    /\ Len(ret) = 1
    /\ Len(ret[1].channels) = 1
    /\ ret[1].channels[1].channel = HHN
    /\ Len(ret[1].channels[1].intervals) = 2

\* ------------------------------------------- Restrictions comparison
\* The attributes a Restrictions object answers to besides its fields
\* (download_helpers.py:145-191).
RestrictionsMethods == {"__init__", "__eq__", "__ne__", "__iter__"}

\* Restrictions.__eq__ (download_helpers.py:168-169): the two __dict__ are
\* compared.
Restrictions_eq(r1, r2) == [value |-> r1 = r2, exc |-> ""]

\* Restrictions.__ne__ (download_helpers.py:171-172): the attribute
\* self.__eq___ is looked up before anything is compared.
Restrictions_ne(r1, r2) ==
    IF "__eq___" \in RestrictionsMethods
    THEN [value |-> ~ Restrictions_eq(r1, r2).value, exc |-> ""]
    ELSE [value |-> None, exc |-> "AttributeError"]

InitCompare ==
    /\ IdleRun
    /\ pc = "compare"
    /\ \E r1 \in AvailRestrictions : \E r2 \in AvailRestrictions :
          arg = [r1 |-> r1, r2 |-> r2]
    /\ ret = <<>>

\* r1 == r2
CompareEq ==
    /\ pc = "compare"
    /\ ret' = [op |-> "==", value |-> Restrictions_eq(arg.r1, arg.r2).value]
    /\ exc' = Restrictions_eq(arg.r1, arg.r2).exc
    /\ pc' = "compared"
    /\ UNCHANGED <<restrictions, mseed_storage, served, clients, cur,
                   stations, files, xmlfiles, existing_stations,
                   discarded_station_ids, report, requested, arg,
                   dirs, qc, arguments>>

\* r1 != r2
CompareNe ==
    /\ pc = "compare"
    /\ ret' = [op |-> "!=", value |-> Restrictions_ne(arg.r1, arg.r2).value]
    /\ exc' = Restrictions_ne(arg.r1, arg.r2).exc
    /\ pc' = "compared"
    /\ UNCHANGED <<restrictions, mseed_storage, served, clients, cur,
                   stations, files, xmlfiles, existing_stations,
                   discarded_station_ids, report, requested, arg,
                   dirs, qc, arguments>>

NextCompare == CompareEq \/ CompareNe

SpecCompare == InitCompare /\ [][NextCompare]_vars

\* All fields of the two Restrictions are equal.
SameFields ==
    \A f \in DOMAIN arg.r1 : arg.r1[f] = arg.r2[f]

\* C35: r1 == r2 is true exactly when all fields of r1 and r2 are equal,
\* and r1 != r2 evaluates without error to the negation of r1 == r2.
C35_EqualityConsistent ==
    pc = "compared" =>
        /\ exc = ""
        /\ ret.op = "==" => ret.value = SameFields
        /\ ret.op = "!=" => ret.value = ~ SameFields

\* ---------------------------- Restrictions.__iter__, one pair at a time
\* Pairs after which a consumer of the iterator is no longer followed.
MaxPairs == 6

InitGenerator ==
    /\ IdleRun
    /\ pc = "iter"
    /\ \E s \in 0..MaxTime : \E e \in 0..MaxTime :
       \E c \in {None} \cup {Some(n) : n \in (-1)..MaxChunk} :
            arg = Restrictions(s, e, c, TRUE, 0)
    /\ ret = [round |-> 1, starttime |-> 0, pairs |-> <<>>, first |-> <<>>]

\* iter(restrictions): download_helpers.py:178-184.  Without a chunklength
\* (None or 0) the iterator is that of a list of one pair; else the
\* generator it() is created with its local starttime.
StartIteration ==
    /\ pc = "iter"
    /\ IF arg.chunklength = None \/ arg.chunklength = Some(0)
       THEN /\ ret' = [ret EXCEPT
                          !.pairs = << <<arg.starttime, arg.endtime>> >>]
            /\ pc' = "exhausted"
       ELSE /\ ret' = [ret EXCEPT !.starttime = arg.starttime]
            /\ pc' = "generating"
    /\ UNCHANGED <<restrictions, mseed_storage, served, clients, cur,
                   stations, files, xmlfiles, existing_stations,
                   discarded_station_ids, report, requested, exc, arg,
                   dirs, qc, arguments>>

\* One round of the while loop of it() (download_helpers.py:187-189).
YieldPair ==
    /\ pc = "generating"
    /\ ret.starttime < arg.endtime
    /\ Len(ret.pairs) < MaxPairs
    /\ ret' = [ret EXCEPT
                  !.pairs = Append(@, <<ret.starttime,
                                        Min(ret.starttime
                                               + arg.chunklength[1],
                                            arg.endtime)>>),
                  !.starttime = @ + arg.chunklength[1]]
    /\ UNCHANGED <<restrictions, mseed_storage, served, clients, pc, cur,
                   stations, files, xmlfiles, existing_stations,
                   discarded_station_ids, report, requested, exc, arg,
                   dirs, qc, arguments>>

\* The while condition is false: raise StopIteration (line 190).
StopIteration ==
    /\ pc = "generating"
    /\ ~ (ret.starttime < arg.endtime)
    /\ pc' = "exhausted"
    /\ UNCHANGED <<restrictions, mseed_storage, served, clients, cur,
                   stations, files, xmlfiles, existing_stations,
                   discarded_station_ids, report, requested, exc, arg, ret,
                   dirs, qc, arguments>>

\* The same Restrictions is iterated a second time.
IterateAgain ==
    /\ pc = "exhausted"
    /\ ret.round = 1
    /\ ret' = [round |-> 2, starttime |-> 0, pairs |-> <<>>,
               first |-> ret.pairs]
    /\ pc' = "iter"
    /\ UNCHANGED <<restrictions, mseed_storage, served, clients, cur,
                   stations, files, xmlfiles, existing_stations,
                   discarded_station_ids, report, requested, exc, arg,
                   dirs, qc, arguments>>

NextGenerator ==
    \/ StartIteration
    \/ YieldPair
    \/ StopIteration
    \/ IterateAgain

SpecGenerator == InitGenerator /\ [][NextGenerator]_vars

\* C36: iterating a Restrictions ends after finitely many pairs for every
\* value the constructor accepts (every pair yielded brings the generator
\* closer to endtime, by at least one second here), a second iteration
\* yields the pairs of the first, and no field of the Restrictions changes.
C36_IterationTerminates ==
    [][/\ (pc = "generating" /\ pc' = "generating")
             => arg.endtime - ret'.starttime < arg.endtime - ret.starttime
       /\ arg' = arg
       /\ (pc' = "exhausted" /\ ret'.round = 2) => ret'.pairs = ret'.first
      ]_vars

\* ------------------------------------- runs with any accepted Restrictions
\* One client; a chunked time span that is valid, and one with endtime equal
\* to starttime, which Restrictions.__init__ stores as well.
InitAccepted ==
    /\ restrictions \in {Restrictions(0, EndTime, Some(ChunkLen), FALSE, 0),
                         Restrictions(EndTime, EndTime, Some(ChunkLen),
                                      FALSE, 0)}
    /\ mseed_storage = "template"
    /\ served = [waveform |-> {"missing", "full"},
                 stationxml |-> {"absent", "covers"},
                 responses |-> {NoData, InvA, InvAB}]
    /\ clients = SubSeq(ProviderNames, 1, 1)
    /\ pc = "get_availability"
    /\ cur = 1
    /\ stations = <<>>
    /\ files = {}
    /\ xmlfiles = {}
    /\ existing_stations = {}
    /\ discarded_station_ids = {}
    /\ report = <<>>
    /\ requested = {}
    /\ exc = ""
    /\ dirs = {}
    /\ qc = NoQC
    /\ arguments = <<>>
    /\ arg = <<>>
    /\ ret = <<>>

SpecAccepted == InitAccepted /\ [][Next]_vars

\* C37: every station installed by get_availability has at least one
\* channel and every channel at least one interval, for every Restrictions
\* the constructor accepts, so that temporal_bounds never takes the minimum
\* of an empty list: no ValueError is raised.
C37_TemporalBoundsDefined ==
    /\ \A s \in DOMAIN stations :
          /\ stations[s].channels # <<>>
          /\ \A c \in DOMAIN stations[s].channels :
                stations[s].channels[c].intervals # <<>>
    /\ exc # "ValueError"

\* ------------------------------------------- TimeInterval objects by identity
\* Objects live in a heap (a tuple, the index is the identity); a channel
\* holds the identities of its intervals.  The first n objects are the list
\* 'intervals' of get_availability (download_status.py:830-831).
deepcopy_samelist(j, n) == [p \in 1..n |-> p]

\* copy.deepcopy(intervals) for the j-th Channel built (line 865): n new
\* objects.
deepcopy(j, n) == [p \in 1..n |-> j * n + p]

SharedCodes == << <<"A", HHZ>>, <<"A", HHN>>, <<"B", HHZ>> >>

\* The written (status, filename) pairs: prepare_mseed_download
\* (lines 219-232), _check_downloaded_data (618-701).
IntervalWrites ==
    {[status |-> "needs_downloading", filename |-> Some("path")],
     [status |-> "downloaded", filename |-> Some("path")]}

InitShared ==
    /\ IdleRun
    /\ pc = "get_availability"
    /\ \E r \in {Restrictions(0, MaxIntervals * 3600, Some(3600), FALSE, 0),
                 Restrictions(0, MaxIntervals * 3600, None, FALSE, 0)} :
       \E m \in 1..Len(SharedCodes) :
            arg = [restrictions |-> r, channels |-> SubSeq(SharedCodes, 1, m)]
    /\ ret = <<>>

\* get_availability, lines 829-865 and 884-892: the interval list and one
\* Channel per offered channel.
InstallChannels ==
    /\ pc = "get_availability"
    /\ LET pairs == Restrictions_iter(arg.restrictions)
           n == Len(pairs)
           m == Len(arg.channels)
       IN  ret' = [heap |-> [k \in 1..((m + 1) * n) |->
                                LET pair == pairs[((k - 1) % n) + 1]
                                IN  TimeInterval(pair[1], pair[2])],
                   channels |-> [j \in 1..m |->
                                [station |-> arg.channels[j][1],
                                 channel |-> arg.channels[j][2],
                                 intervals |-> deepcopy(j, n)]]]
    /\ pc' = "installed"
    /\ UNCHANGED <<restrictions, mseed_storage, served, clients, cur,
                   stations, files, xmlfiles, existing_stations,
                   discarded_station_ids, report, requested, exc, arg,
                   dirs, qc, arguments>>

\* interval.status = ... ; interval.filename = ... on one interval of one
\* channel.
SetInterval ==
    /\ pc = "installed"
    /\ \E j \in DOMAIN ret.channels :
       \E p \in DOMAIN ret.channels[j].intervals :
       \E w \in IntervalWrites :
            ret' = [ret EXCEPT !.heap[ret.channels[j].intervals[p]] =
                        [@ EXCEPT !.status = w.status,
                                  !.filename = w.filename]]
    /\ UNCHANGED <<restrictions, mseed_storage, served, clients, cur,
                   stations, files, xmlfiles, existing_stations,
                   discarded_station_ids, report, requested, exc, arg,
                   dirs, qc, arguments, pc>>

NextShared == InstallChannels \/ SetInterval

SpecShared == InitShared /\ [][NextShared]_vars

\* The intervals of channel j as the program reads them.
IntervalsOf(r, j) ==
    [p \in DOMAIN r.channels[j].intervals |->
        r.heap[r.channels[j].intervals[p]]]

\* C38: after get_availability, a write to the status or filename of an
\* interval of one channel leaves the status and filename of every interval
\* of every other channel unchanged.
C38_IntervalsNotShared ==
    [][(pc = "installed" /\ pc' = "installed") =>
          Cardinality({j \in DOMAIN ret.channels :
                          IntervalsOf(ret', j) # IntervalsOf(ret, j)}) <= 1]_vars

C38_Witness ==
    /\ pc = "installed"
    /\ \E j, k \in DOMAIN ret.channels : \E p \in DOMAIN ret.heap :
          /\ j # k
          /\ p \in DOMAIN ret.channels[j].intervals
          /\ IntervalsOf(ret, j)[p].status = "downloaded"
          /\ IntervalsOf(ret, k)[p].status = "none"
          /\ IntervalsOf(ret, k)[p].filename = NoFilename

\* ------------------------------------------------- the QC pass on its own
\* Stations BW.A (HHZ, HHN) and BW.B (HHZ), one interval each, as
\* get_availability installs them.
QCInstalled ==
    << Station("BW", "A", 0, 0,
           << Channel(LocEmpty, HHZ, << TimeInterval(0, EndTime) >>),
              Channel(LocEmpty, HHN, << TimeInterval(0, EndTime) >>) >>),
       Station("BW", "B", 0, 1,
           << Channel(LocEmpty, HHZ, << TimeInterval(0, EndTime) >>) >>) >>

\* The paths the storage hint gives the intervals.
QCPaths(storage) ==
    {get_mseed_filename(storage, QCInstalled[p[1]].network,
                        QCInstalled[p[1]].station,
                        QCInstalled[p[1]].channels[p[2]].location,
                        QCInstalled[p[1]].channels[p[2]].channel,
                        IntervalAt(QCInstalled, p).start,
                        IntervalAt(QCInstalled, p).end) :
        p \in Range(Positions(QCInstalled))}

\* A run up to the return of the worker pool of download_mseed: files of an
\* earlier run, prepare_mseed_download, then what the bulk requests wrote
\* at the paths of the NEEDS_DOWNLOADING intervals.
InitQC ==
    /\ \E gaps \in BOOLEAN : \E minimum_length \in {0, 90} :
          restrictions = Restrictions(0, EndTime, None, gaps, minimum_length)
    /\ mseed_storage \in {"template", "flat"}
    /\ served = [waveform |-> FileKinds, stationxml |-> {}, responses |-> {}]
    /\ clients = <<"IRIS">>
    /\ cur = 1
    /\ \E earlier \in SUBSET QCPaths(mseed_storage) :
       \E written \in [QCPaths(mseed_storage) \ earlier -> FileKinds] :
          LET before == {[path |-> path,
                          content |-> Content("full", EndTime)] :
                            path \in earlier}
          IN  /\ stations = [s \in DOMAIN QCInstalled |->
                     Station_prepare_mseed_download(QCInstalled[s],
                                                    mseed_storage, before)]
              /\ files = before \cup
                     {[path |-> path,
                       content |-> Content(written[path], EndTime)] :
                         path \in {x \in DOMAIN written :
                                      written[x] # "missing"}}
    /\ xmlfiles = {}
    /\ existing_stations = {}
    /\ discarded_station_ids = {}
    /\ report = <<>>
    /\ requested = {}
    /\ exc = ""
    /\ dirs = {}
    /\ qc = NoQC
    /\ arguments = <<>>
    /\ arg = <<>>
    /\ ret = <<>>
    /\ pc = "check_downloaded_data"

\* self._check_downloaded_data() at the end of download_mseed
\* (download_status.py:618-701).
CheckDownloadedData ==
    /\ pc = "check_downloaded_data"
    /\ LET q == check_downloaded_data(stations, files, restrictions)
       IN  /\ stations' = q.stations
           /\ files' = q.files
           /\ exc' = q.exc
           /\ qc' = [stations |-> stations, files |-> files,
                     downloaded_bytes |-> q.downloaded_bytes,
                     discarded_bytes |-> q.discarded_bytes]
           /\ pc' = IF q.exc # "" THEN "raised"
                    ELSE "prepare_stationxml_download"
    /\ UNCHANGED <<restrictions, mseed_storage, served, clients, cur,
                   xmlfiles, existing_stations, discarded_station_ids,
                   report, requested, arg, ret, dirs, arguments>>

SpecQC == InitQC /\ [][CheckDownloadedData]_vars

RECURSIVE SumFiles(_)
\* The summed sizes of a set of files.
SumFiles(fs) ==
    IF fs = {} THEN 0
    ELSE LET f == CHOOSE x \in fs : TRUE
         IN  f.content.size + SumFiles(fs \ {f})

\* The intervals QC set to the given status.
SetTo(status) ==
    {p \in QCPositions :
        WasQueued(p) /\ IntervalAt(stations, p).status = status}

\* The files at the filenames of a set of intervals, as QC found them.
FilesOf(ps) == {f \in qc.files : \E p \in ps : Before(p).filename = f.path}

ByteAccountingExact ==
    \* the sizes of the intervals set to DOWNLOADED
    /\ qc.downloaded_bytes = SumSizes(SetTo("downloaded"))
    \* the non-empty files QC deleted
    /\ qc.discarded_bytes =
           SumFiles({f \in qc.files \ files : f.content.size > 0})
    \* each file at most once
    /\ qc.downloaded_bytes = SumFiles(FilesOf(SetTo("downloaded")))
    /\ \A p \in SetTo("download_failed") \cup SetTo("download_rejected") :
           ~ Exists(files, Before(p).filename)

\* No two intervals that QC examines have the same filename.
DistinctFilenames ==
    \A p1, p2 \in QCPositions :
        (WasQueued(p1) /\ WasQueued(p2) /\ p1 # p2)
            => Before(p1).filename # Before(p2).filename

MaxSamps == 2
MaxLines == 2
MaxSum == 2

DigitChars == <<"0", "1", "2", "3", "4", "5", "6", "7", "8", "9">>

RECURSIVE Decimal(_)
\* The number written by a tuple of digits.
Decimal(digits) ==
    IF digits = <<>> THEN 0
    ELSE 10 * Decimal(SubSeq(digits, 1, Len(digits) - 1))
         + (CHOOSE d \in 0..9 : DigitChars[d + 1] = digits[Len(digits)])

IsDecimal(token) == token # <<>> /\ Range(token) \subseteq Range(DigitChars)

\* int(token): [ok, value], or ValueError for text that is not an integer.
int(token) ==
    IF IsDecimal(token) THEN [ok |-> TRUE, value |-> Decimal(token)]
    ELSE IF token # <<>> /\ Head(token) \in {"-", "+"} /\ IsDecimal(Tail(token))
    THEN [ok |-> TRUE,
          value |-> IF Head(token) = "-" THEN 0 - Decimal(Tail(token))
                    ELSE Decimal(Tail(token))]
    ELSE [ok |-> FALSE, value |-> 0]

RECURSIVE SplitFrom(_, _, _)
SplitFrom(line, token, fields) ==
    LET done == IF token = <<>> THEN fields ELSE Append(fields, token)
    IN  IF line = <<>> THEN done
        ELSE IF Head(line) = " " THEN SplitFrom(Tail(line), <<>>, done)
        ELSE SplitFrom(Tail(line), Append(token, Head(line)), fields)

\* buf.strip().split(): the fields between runs of blanks.
split(line) == SplitFrom(line, <<>>, <<>>)

\* buf.startswith(prefix)
startswith(line, prefix) ==
    Len(line) >= Len(prefix) /\ SubSeq(line, 1, Len(prefix)) = prefix

CHK2 == <<"C", "H", "K", "2">>

\* Lines a file can hold after the compressed data.
GseLines ==
    { CHK2 \o <<" ", "1">>,
      CHK2 \o <<" ", " ", "2">>,
      CHK2 \o <<" ", "0", "1">>,
      CHK2 \o <<" ", "-", "1">>,
      CHK2,
      CHK2 \o <<" ", "x">>,
      <<"S", "T", "A", "2", " ", "1">>,
      <<" ", "7">> }

RECURSIVE ReadLines(_)
\* The loop over f.readline() (libgse2.py:243-249): chksum_file, or the
\* exception of line 247.
ReadLines(lines) ==
    IF lines = <<>> THEN [exc |-> "", chksum_file |-> 0 - 1]
    ELSE IF startswith(Head(lines), CHK2)
    THEN LET fields == split(Head(lines))
         IN  IF Len(fields) < 2
             THEN [exc |-> "IndexError", chksum_file |-> 0 - 1]
             ELSE IF ~ int(fields[2]).ok
             THEN [exc |-> "ValueError", chksum_file |-> 0 - 1]
             ELSE [exc |-> "", chksum_file |-> int(fields[2]).value]
    ELSE ReadLines(Tail(lines))

abs_signed(x) == x

\* abs()
abs(x) == IF x < 0 THEN 0 - x ELSE x

\* A file: what lib.read_header, lib.decomp_6b and lib.check_sum give for
\* it, and the lines after the data.
InitGse ==
    /\ IdleRun
    /\ pc = "read_header"
    /\ \E errcode \in {0, 1} :
       \E n_samps \in {0, MaxSamps} : \E n \in 0..MaxSamps :
       \E check_sum \in (0 - MaxSum)..MaxSum :
       \E len \in 0..MaxLines : \E lines \in [1..len -> GseLines] :
       \E verify_chksum \in BOOLEAN :
            arg = [errcode |-> errcode, n_samps |-> n_samps, n |-> n,
                   check_sum |-> check_sum, lines |-> lines,
                   verify_chksum |-> verify_chksum]
    /\ ret = <<>>

GseFrame ==
    UNCHANGED <<restrictions, mseed_storage, served, clients, cur,
                stations, files, xmlfiles, existing_stations,
                discarded_station_ids, report, requested, arg,
                dirs, qc, arguments>>

\* libgse2.py:227-231
ReadHeader ==
    /\ pc = "read_header"
    /\ IF arg.errcode # 0
       THEN pc' = "raised" /\ exc' = "GSEUtiError"
       ELSE pc' = "decomp_6b" /\ exc' = exc
    /\ ret' = ret
    /\ GseFrame

\* libgse2.py:232-237
Decompress ==
    /\ pc = "decomp_6b"
    /\ IF arg.n # arg.n_samps
       THEN pc' = "raised" /\ exc' = "GSEUtiError"
       ELSE /\ pc' = IF arg.verify_chksum THEN "verify_chksum"
                     ELSE "returned"
            /\ exc' = exc
    /\ ret' = IF arg.n = arg.n_samps /\ ~ arg.verify_chksum
              THEN <<"headdict", "data">> ELSE ret
    /\ GseFrame

\* libgse2.py:238-252
VerifyChksum ==
    /\ pc = "verify_chksum"
    /\ LET chksum_data == abs(arg.check_sum)
           found == ReadLines(arg.lines)
       IN  IF found.exc # ""
           THEN pc' = "raised" /\ exc' = found.exc /\ ret' = ret
           ELSE IF chksum_data # found.chksum_file
           THEN pc' = "raised" /\ exc' = "ChksumError" /\ ret' = ret
           ELSE /\ pc' = "returned"
                /\ exc' = exc
                /\ ret' = <<"headdict", "data">>
    /\ GseFrame

NextGse == ReadHeader \/ Decompress \/ VerifyChksum

SpecGse == InitGse /\ [][NextGse]_vars

\* The first line after the data that begins with CHK2, if any.
Chk2Lines == {k \in DOMAIN arg.lines : startswith(arg.lines[k], CHK2)}
FirstChk2 == arg.lines[MinOf(Chk2Lines)]

\* The line carries an integer as its second field.
CarriesValue(line) == Len(split(line)) >= 2 /\ int(split(line)[2]).ok
ValueOf(line) == int(split(line)[2]).value

ChecksumsAgree ==
    /\ Chk2Lines # {}
    /\ CarriesValue(FirstChk2)
    /\ ValueOf(FirstChk2) = abs(arg.check_sum)

ReadEnded == pc \in {"returned", "raised"}
Decoded == arg.errcode = 0 /\ arg.n = arg.n_samps

\* The parts of the statement that do not depend on the form of the CHK2
\* line.
ReadOutcomes ==
    /\ (arg.verify_chksum /\ pc = "returned") =>
          /\ ChecksumsAgree
          /\ ret = <<"headdict", "data">>
    /\ ~ Decoded => (pc = "raised" /\ exc = "GSEUtiError")
    /\ ~ arg.verify_chksum => exc # "ChksumError"
    /\ (~ arg.verify_chksum /\ Decoded) => pc = "returned"

\* C40 as stated: with verify_chksum read returns (header, data) only if
\* a CHK2 line after the data carries the absolute value of the computed
\* checksum; if the values differ or there is no CHK2 line it raises
\* ChksumError; an unreadable header or a wrong number of decoded samples
\* raises GSEUtiError; without verify_chksum it never raises ChksumError.
C40_ChecksumVerified ==
    ReadEnded =>
        /\ ReadOutcomes
        /\ (arg.verify_chksum /\ Decoded /\ ~ ChecksumsAgree)
              => (pc = "raised" /\ exc = "ChksumError")

\* C40 amended: ChksumError is raised when there is no CHK2 line or the
\* first one carries an integer that differs; a first CHK2 line without a
\* second field raises IndexError, one whose second field is not an integer
\* ValueError.
C40_ChecksumVerifiedWellFormed ==
    ReadEnded =>
        /\ ReadOutcomes
        /\ (arg.verify_chksum /\ Decoded /\ ~ ChecksumsAgree) =>
              /\ pc = "raised"
              /\ exc = IF Chk2Lines = {} \/ CarriesValue(FirstChk2)
                       THEN "ChksumError"
                       ELSE IF Len(split(FirstChk2)) < 2 THEN "IndexError"
                       ELSE "ValueError"

C40_Witness ==
    /\ pc = "returned"
    /\ arg.verify_chksum
    /\ arg.check_sum < 0
    /\ Len(arg.lines) = 2
    /\ ~ startswith(arg.lines[1], CHK2)
    /\ ChecksumsAgree

====
